---- MODULE Spec2Model ----
(***************************************************************************)
(* Verification model of the resilient remote-call gateway of the          *)
(* angelpredict repository: the token-bucket RateLimiter                    *)
(* (src/src/rate_limiter.py), the LRU/TTL APICache (src/src/api_cache.py),  *)
(* the exponential-backoff retrier (src/src/retry_logic.py) and the         *)
(* guarded call AngelOneClient.get_historical_data                          *)
(* (src/src/angelone_client.py).                                            *)
(*                                                                         *)
(* Time is a discrete clock `now` (time.time()).  Token counts are floats   *)
(* in the source; here they are integers counted in sub-tokens, Sub         *)
(* sub-tokens to one token, and the rate is in sub-tokens per tick.         *)
(***************************************************************************)
EXTENDS Integers, Sequences, FiniteSets, TLC

VARIABLES
    now,            \* time.time()
    \* ---- RateLimiter instance
    rate,           \* self.rate, sub-tokens per tick
    capacity,       \* self.capacity, whole tokens
    tokens,         \* self.tokens, sub-tokens
    last_update,    \* self.last_update
    frame,          \* per caller: the call of the limiter it is in
    lret,           \* outcome of the last completed limiter call
    granted,        \* history: whole tokens granted at each tick
    \* ---- APICache instance
    max_size,       \* self.max_size
    ttl_seconds,    \* self.ttl_seconds
    cache,          \* self._cache: the OrderedDict as a sequence, oldest first
    hits,           \* self._hits
    misses,         \* self._misses
    evictions,      \* self._evictions
    cret,           \* outcome of the last completed cache call
    ops,            \* history: number of get, set, invalidate and clear calls completed
    lastUse,        \* history: per key, the call number of its last set or get hit
    stored,         \* history: per key, time and value of its last set
    setKeys,        \* history: the keys set so far
    pristine,       \* history: only sets of pairwise distinct keys, nothing removed
    \* ---- retrier: retry_with_backoff and execute_with_retry
    max_retries, initial_delay, max_delay, exponential_base, retry_on,
    script,         \* what the wrapped operation does at its 1st, 2nd, ... invocation
    retr,           \* per retrier ("wrapper", "execute"): where its call stands
    \* ---- AngelOneClient
    authenticated,  \* self.authenticated
    gcall,          \* per caller: the call of get_historical_data it is in
    \* ---- APICache.generate_key
    keyed,          \* per caller: its last call of generate_key and the key returned
    keyOf,          \* the keys generate_key returns, computed once when a run starts
    \* ---- construction
    built,          \* which instances exist, and the error of the last constructor call
    \* ---- AllocationTracker and OrderManager
    today,          \* datetime.now(), as the number of the day
    simulate,       \* config.PAPER_TRADING or config.SIMULATE_ORDERS
    allocations,    \* self.allocations: per day present, allocated_companies and orders
    orderlog,       \* history: the orders placed or simulated and the marks, in order
    oret            \* the last call of the order manager and what it returned

limVars == <<rate, capacity, tokens, last_update, frame, lret, granted>>
cacheVars == <<max_size, ttl_seconds, cache, hits, misses, evictions, cret, ops,
               lastUse, stored, setKeys, pristine>>
retryVars == <<max_retries, initial_delay, max_delay, exponential_base, retry_on,
               script, retr>>
guardVars == <<authenticated, gcall>>
keyVars == <<keyed, keyOf>>
instVars == <<built>>
allocVars == <<today, simulate, allocations, orderlog, oret>>
vars == <<now, limVars, cacheVars, retryVars, guardVars, keyVars, instVars, allocVars>>

\* ------------------------------------------------------------------ bounds
MaxTime == 2        \* the clock runs over 0..MaxTime
Sub == 2            \* sub-tokens to one token (the granularity of the float count)

Callers == {1, 2}
Times == 0..MaxTime
\* the limiters constructed: <<rate in sub-tokens per tick, capacity in tokens>>
LimiterConfigs == {<<1, 2>>, <<2, 1>>}
Min(a, b) == IF a <= b THEN a ELSE b
Max(a, b) == IF a >= b THEN a ELSE b

\* ------------------------------------------------------------- RateLimiter

IdleFrame == [pc |-> "idle", n |-> 0, hasTimeout |-> FALSE, timeout |-> 0,
              start |-> 0, wait |-> 0, sleepStart |-> 0]
NoRet == [op |-> "none", n |-> 0, val |-> 0, ok |-> FALSE, err |-> "none"]

\* a limiter constructed with an empty bucket
LimiterInitEmpty(r, c) ==
    /\ rate = r
    /\ capacity = c
    /\ tokens = 0
    /\ last_update = now
    /\ frame = [x \in Callers |-> IdleFrame]
    /\ lret = NoRet
    /\ granted = [t \in Times |-> 0]

\* RateLimiter.__init__: a full bucket, last_update = time.time()
LimiterInit(r, c) ==
    /\ rate = r
    /\ capacity = c
    /\ tokens = c * Sub
    /\ last_update = now
    /\ frame = [x \in Callers |-> IdleFrame]
    /\ lret = NoRet
    /\ granted = [t \in Times |-> 0]

\* a refill that credits whole tokens only and drops the fraction
RefillWholeTokens(tok, last, t) ==
    Min(capacity * Sub, tok + (((t - last) * rate) \div Sub) * Sub)

\* a refill that forgets the cap
RefillUncapped(tok, last, t) == tok + (t - last) * rate

\* _refill_tokens: tokens = min(capacity, tokens + elapsed * rate)
RefillTokens(tok, last, t) == Min(capacity * Sub, tok + (t - last) * rate)

\* an admission test that wants more than the tokens asked for
SufficientStrict(tok, n) == tok > n * Sub

\* the branch `if self.tokens >= tokens` of try_acquire and acquire
Sufficient(tok, n) == tok >= n * Sub

\* a grant that takes one token whatever the number asked for
ConsumeOne(tok, n) == tok - Sub

\* a grant that forgets to take the tokens
ConsumeNothing(tok, n) == tok

\* self.tokens -= tokens
Consume(tok, n) == tok - n * Sub

\* a try_acquire without the test `if tokens > self.capacity`
TryAcquireNoUpperCheck(c, n) ==
    /\ frame[c].pc = "idle"
    /\ UNCHANGED <<rate, capacity, frame>>
    /\ IF n <= 0
       THEN /\ lret' = [NoRet EXCEPT !.op = "try_acquire", !.n = n,
                                                       !.err = "ValueError"]
            /\ UNCHANGED <<tokens, last_update, granted>>
       ELSE LET refilled == RefillTokens(tokens, last_update, now) IN
            /\ last_update' = now
            /\ IF Sufficient(refilled, n)
               THEN /\ tokens' = Consume(refilled, n)
                    /\ granted' = [granted EXCEPT ![now] = @ + n]
                    /\ lret' = [NoRet EXCEPT !.op = "try_acquire",
                                                       !.n = n, !.ok = TRUE]
               ELSE /\ tokens' = refilled
                    /\ UNCHANGED granted
                    /\ lret' = [NoRet EXCEPT !.op = "try_acquire",
                                                       !.n = n]

\* try_acquire(tokens=n): one call, its critical section included
TryAcquire(c, n) ==
    /\ frame[c].pc = "idle"
    /\ UNCHANGED <<rate, capacity, frame>>
    /\ IF n <= 0
       THEN /\ lret' = [NoRet EXCEPT !.op = "try_acquire", !.n = n,
                                                       !.err = "ValueError"]
            /\ UNCHANGED <<tokens, last_update, granted>>
       ELSE IF n > capacity
       THEN /\ lret' = [NoRet EXCEPT !.op = "try_acquire", !.n = n]
            /\ UNCHANGED <<tokens, last_update, granted>>
       ELSE LET refilled == RefillTokens(tokens, last_update, now) IN
            /\ last_update' = now
            /\ IF Sufficient(refilled, n)
               THEN /\ tokens' = Consume(refilled, n)
                    /\ granted' = [granted EXCEPT ![now] = @ + n]
                    /\ lret' = [NoRet EXCEPT !.op = "try_acquire",
                                                       !.n = n, !.ok = TRUE]
               ELSE /\ tokens' = refilled
                    /\ UNCHANGED granted
                    /\ lret' = [NoRet EXCEPT !.op = "try_acquire",
                                                       !.n = n]

\* a get_available_tokens whose refill leaves last_update as it was
GetAvailableTokensKeepsClock(c) ==
    /\ frame[c].pc = "idle"
    /\ LET refilled == RefillTokens(tokens, last_update, now) IN
       /\ tokens' = refilled
       /\ lret' = [NoRet EXCEPT !.op = "get_available_tokens",
                                                   !.val = refilled \div Sub, !.ok = TRUE]
    /\ UNCHANGED <<rate, capacity, last_update, frame, granted>>

\* get_available_tokens(): refill, then int(self.tokens)
GetAvailableTokens(c) ==
    /\ frame[c].pc = "idle"
    /\ LET refilled == RefillTokens(tokens, last_update, now) IN
       /\ tokens' = refilled
       /\ last_update' = now
       /\ lret' = [NoRet EXCEPT !.op = "get_available_tokens",
                                                   !.val = refilled \div Sub, !.ok = TRUE]
    /\ UNCHANGED <<rate, capacity, frame, granted>>

\* an acquire that looks at the timeout before its first admission check
AcquireCallTimeoutFirst(c, n, hasTimeout, timeout) ==
    /\ frame[c].pc = "idle"
    /\ UNCHANGED <<rate, capacity, tokens, last_update, granted>>
    /\ IF n <= 0 \/ n > capacity
       THEN /\ lret' = [NoRet EXCEPT !.op = "acquire", !.n = n,
                                                       !.err = "ValueError"]
            /\ UNCHANGED frame
       ELSE /\ frame' = [frame EXCEPT ![c] = [IdleFrame EXCEPT !.pc = "timeout", !.n = n,
                                  !.hasTimeout = hasTimeout, !.timeout = timeout,
                                  !.start = now]]
            /\ UNCHANGED lret

\* acquire(tokens=n, timeout): argument checks and start_time = time.time()
AcquireCall(c, n, hasTimeout, timeout) ==
    /\ frame[c].pc = "idle"
    /\ UNCHANGED <<rate, capacity, tokens, last_update, granted>>
    /\ IF n <= 0 \/ n > capacity
       THEN /\ lret' = [NoRet EXCEPT !.op = "acquire", !.n = n,
                                                       !.err = "ValueError"]
            /\ UNCHANGED frame
       ELSE /\ frame' = [frame EXCEPT ![c] = [IdleFrame EXCEPT !.pc = "check", !.n = n,
                                  !.hasTimeout = hasTimeout, !.timeout = timeout,
                                  !.start = now]]
            /\ UNCHANGED lret

\* an admission check that lets the callers blocked for longer go first
AcquireCheckFifo(c) ==
    /\ frame[c].pc = "check"
    /\ UNCHANGED <<rate, capacity>>
    /\ LET refilled == RefillTokens(tokens, last_update, now)
           n == frame[c].n
           first == \A x \in Callers \ {c} :
                       frame[x].pc = "idle" \/ frame[x].start >= frame[c].start IN
       /\ last_update' = now
       /\ IF Sufficient(refilled, n) /\ first
          THEN /\ tokens' = Consume(refilled, n)
               /\ granted' = [granted EXCEPT ![now] = @ + n]
               /\ frame' = [frame EXCEPT ![c] = IdleFrame]
               /\ lret' = [NoRet EXCEPT !.op = "acquire", !.n = n,
                                                          !.ok = TRUE]
          ELSE /\ tokens' = refilled
               /\ frame' = [frame EXCEPT ![c].pc = "timeout"]
               /\ UNCHANGED <<granted, lret>>

\* acquire: the first critical section of the loop, refill and check
AcquireCheck(c) ==
    /\ frame[c].pc = "check"
    /\ UNCHANGED <<rate, capacity>>
    /\ LET refilled == RefillTokens(tokens, last_update, now)
           n == frame[c].n IN
       /\ last_update' = now
       /\ IF Sufficient(refilled, n)
          THEN /\ tokens' = Consume(refilled, n)
               /\ granted' = [granted EXCEPT ![now] = @ + n]
               /\ frame' = [frame EXCEPT ![c] = IdleFrame]
               /\ lret' = [NoRet EXCEPT !.op = "acquire", !.n = n,
                                                          !.ok = TRUE]
          ELSE /\ tokens' = refilled
               /\ frame' = [frame EXCEPT ![c].pc = "timeout"]
               /\ UNCHANGED <<granted, lret>>

\* a timeout check that gives up after the first failed admission check
AcquireTimeoutAtOnce(c) ==
    /\ frame[c].pc = "timeout"
    /\ UNCHANGED <<rate, capacity, tokens, last_update, granted>>
    /\ lret' = [NoRet EXCEPT !.op = "acquire", !.n = frame[c].n]
    /\ frame' = [frame EXCEPT ![c] = IdleFrame]

\* acquire: the timeout check, elapsed = time.time() - start_time
AcquireTimeout(c) ==
    /\ frame[c].pc = "timeout"
    /\ UNCHANGED <<rate, capacity, tokens, last_update, granted>>
    /\ IF frame[c].hasTimeout /\ now - frame[c].start >= frame[c].timeout
       THEN /\ lret' = [NoRet EXCEPT !.op = "acquire",
                                                       !.n = frame[c].n]
            /\ frame' = [frame EXCEPT ![c] = IdleFrame]
       ELSE /\ frame' = [frame EXCEPT ![c].pc = "wait"]
            /\ UNCHANGED lret

\* the cap min(wait_time, 0.1) of acquire: one tick
WaitCap == 1

\* acquire: the second critical section, wait_time = min((n - tokens) / rate, 0.1),
\* kept multiplied by rate: min(n - tokens, 0.1 * rate), in sub-tokens.
WaitTime(tok, n) == Min(n * Sub - tok, WaitCap * rate)

AcquireWait(c) ==
    /\ frame[c].pc = "wait"
    /\ frame' = [frame EXCEPT ![c].pc = "sleep",
                              ![c].wait = WaitTime(tokens, frame[c].n),
                              ![c].sleepStart = now]
    /\ UNCHANGED <<rate, capacity, tokens, last_update, granted, lret>>

\* acquire: time.sleep(wait_time); a negative argument raises ValueError
AcquireSleep(c) ==
    /\ frame[c].pc = "sleep"
    /\ UNCHANGED <<rate, capacity, tokens, last_update, granted>>
    /\ IF frame[c].wait < 0
       THEN /\ lret' = [NoRet EXCEPT !.op = "acquire",
                                                       !.n = frame[c].n,
                                                       !.err = "ValueError"]
            /\ frame' = [frame EXCEPT ![c] = IdleFrame]
       ELSE /\ (now - frame[c].sleepStart) * rate >= frame[c].wait
            /\ frame' = [frame EXCEPT ![c].pc = "check", ![c].wait = 0,
                                      ![c].sleepStart = 0]
            /\ UNCHANGED lret

\* the clock moves forward
Tick ==
    /\ now < MaxTime
    /\ now' = now + 1

\* ----------------------------------------------------------------- retrier
MaxRetries == 2     \* the largest max_retries tried

Retriers == {"wrapper", "execute"}
\* what one invocation of the wrapped operation does: return, or raise an error
Kinds == {"ok", "RateLimitError", "NetworkError", "ValueError"}
\* the retry_on tuples tried; the last is the one of get_historical_data
RetryOnSets == {{"RetryableError"}, {"RateLimitError"},
                {"RateLimitError", "NetworkError", "Exception"}}
\* <<initial_delay, exponential_base, max_delay>>
DelayConfigs == {<<1, 2, 10>>, <<1, 2, 3>>, <<2, 3, 4>>}

NoOutcome == [kind |-> "none", idx |-> 0]
NewRetry == [pc |-> "loop", attempt |-> 0, calls |-> 0, sleeps |-> <<>>, delay |-> 0,
             result |-> NoOutcome, error |-> NoOutcome, last_exception |-> NoOutcome]

RetryInit(m, d, on, sc) ==
    /\ max_retries = m
    /\ initial_delay = d[1] /\ exponential_base = d[2] /\ max_delay = d[3]
    /\ retry_on = on
    /\ script = sc
    /\ retr = [r \in Retriers |-> NewRetry]

\* isinstance(e, cls): RateLimitError and NetworkError derive from RetryableError,
\* every error from Exception
IsInstance(kind, cls) ==
    \/ cls = kind
    \/ cls = "Exception"
    \/ cls = "RetryableError" /\ kind \in {"RateLimitError", "NetworkError"}

RECURSIVE Pow(_, _)
Pow(b, e) == IF e <= 0 THEN 1 ELSE b * Pow(b, e - 1)

\* the outcome of the next invocation of the wrapped operation
Invocation(fr) == [kind |-> script[fr.calls + 1], idx |-> fr.calls + 1]

\* ---- retry_with_backoff.wrapper

\* a handler that catches every error
WrapperCatchesAll(kind) == TRUE

\* except retry_on as e
WrapperCatches(kind) == \E cls \in retry_on : IsInstance(kind, cls)

\* a budget one attempt short
WrapperLastEarly(attempt) == attempt >= max_retries - 1

\* a budget one attempt long
WrapperLastLate(attempt) == attempt >= max_retries + 1

\* if attempt >= max_retries: raise
WrapperLast(attempt) == attempt >= max_retries

\* a delay computed from the number of the next attempt
WrapperDelayNext(attempt) ==
    Min(initial_delay * Pow(exponential_base, attempt + 1), max_delay)

\* delay = min(initial_delay * (exponential_base ** attempt), max_delay)
WrapperDelay(attempt) == Min(initial_delay * Pow(exponential_base, attempt), max_delay)

\* a success that is stored while the loop goes on
WrapperKeepGoing(fr, o) ==
    [fr EXCEPT !.calls = @ + 1, !.attempt = @ + 1, !.result = o]

\* result = func(*args, **kwargs); return result
WrapperReturn(fr, o) == [fr EXCEPT !.calls = @ + 1, !.pc = "returned", !.result = o]

\* one pass of the body of `for attempt in range(max_retries + 1)`, up to the
\* return, the raise or the call of time.sleep, o being what func does when it is
\* invoked; past the loop, raise last_exception if there is one, else return None
WrapperAttempt(fr, o) ==
    IF fr.attempt > max_retries
    THEN IF fr.last_exception # NoOutcome
         THEN [fr EXCEPT !.pc = "raised", !.error = fr.last_exception]
         ELSE [fr EXCEPT !.pc = "returned", !.result = [kind |-> "None", idx |-> 0]]
    ELSE IF o.kind = "ok" THEN WrapperReturn(fr, o)
         ELSE IF ~WrapperCatches(o.kind)
         THEN [fr EXCEPT !.calls = @ + 1, !.pc = "raised", !.error = o]
         ELSE IF WrapperLast(fr.attempt)
         THEN [fr EXCEPT !.calls = @ + 1, !.pc = "raised", !.error = o,
                         !.last_exception = o]
         ELSE [fr EXCEPT !.calls = @ + 1, !.pc = "sleep", !.last_exception = o,
                         !.delay = WrapperDelay(fr.attempt)]

\* time.sleep(delay), then the next attempt
WrapperSleep(fr) ==
    [fr EXCEPT !.sleeps = Append(@, fr.delay), !.delay = 0, !.attempt = @ + 1,
               !.pc = "loop"]

\* ---- execute_with_retry

\* except retry_on as e
ExecuteCatches(kind) == \E cls \in retry_on : IsInstance(kind, cls)

\* if attempt >= max_retries: raise
ExecuteLast(attempt) == attempt >= max_retries

\* a delay that forgets max_delay
ExecuteDelayUncapped(attempt) == initial_delay * Pow(exponential_base, attempt)

\* delay = min(initial_delay * (exponential_base ** attempt), max_delay)
ExecuteDelay(attempt) == Min(initial_delay * Pow(exponential_base, attempt), max_delay)

\* result = func(); return result
ExecuteReturn(fr, o) == [fr EXCEPT !.calls = @ + 1, !.pc = "returned", !.result = o]

\* one pass of the body of the loop of execute_with_retry, as for the wrapper
ExecuteAttempt(fr, o) ==
    IF fr.attempt > max_retries
    THEN IF fr.last_exception # NoOutcome
         THEN [fr EXCEPT !.pc = "raised", !.error = fr.last_exception]
         ELSE [fr EXCEPT !.pc = "returned", !.result = [kind |-> "None", idx |-> 0]]
    ELSE IF o.kind = "ok" THEN ExecuteReturn(fr, o)
         ELSE IF ~ExecuteCatches(o.kind)
         THEN [fr EXCEPT !.calls = @ + 1, !.pc = "raised", !.error = o]
         ELSE IF ExecuteLast(fr.attempt)
         THEN [fr EXCEPT !.calls = @ + 1, !.pc = "raised", !.error = o,
                         !.last_exception = o]
         ELSE [fr EXCEPT !.calls = @ + 1, !.pc = "sleep", !.last_exception = o,
                         !.delay = ExecuteDelay(fr.attempt)]

\* time.sleep(delay), then the next attempt
ExecuteSleep(fr) ==
    [fr EXCEPT !.sleeps = Append(@, fr.delay), !.delay = 0, !.attempt = @ + 1,
               !.pc = "loop"]

\* ---- the steps of the two retriers
UnchangedRetryConfig ==
    UNCHANGED <<max_retries, initial_delay, max_delay, exponential_base, retry_on,
                script>>

WrapperCall ==
    /\ retr["wrapper"].pc = "loop"
    /\ retr' = [retr EXCEPT !["wrapper"] = WrapperAttempt(@, Invocation(@))]
    /\ UnchangedRetryConfig

WrapperWait ==
    /\ retr["wrapper"].pc = "sleep"
    /\ retr' = [retr EXCEPT !["wrapper"] = WrapperSleep(@)]
    /\ UnchangedRetryConfig

ExecuteCall ==
    /\ retr["execute"].pc = "loop"
    /\ retr' = [retr EXCEPT !["execute"] = ExecuteAttempt(@, Invocation(@))]
    /\ UnchangedRetryConfig

ExecuteWait ==
    /\ retr["execute"].pc = "sleep"
    /\ retr' = [retr EXCEPT !["execute"] = ExecuteSleep(@)]
    /\ UnchangedRetryConfig

\* ---------------------------------------------------------------- APICache
MaxOps == 4         \* cache calls per run

Keys == {"a", "b", "c"}
Values == {"v1", "v2"}
None == "None"
\* the caches constructed: <<max_size, ttl_seconds>>
CacheConfigs == {<<1, 1>>, <<2, 2>>}

NoCacheRet == [op |-> "none", key |-> None, val |-> None, hit |-> FALSE]

\* APICache.__init__: an empty map and zeroed statistics
CacheInit(m, ttl) ==
    /\ max_size = m
    /\ ttl_seconds = ttl
    /\ cache = <<>>
    /\ hits = 0 /\ misses = 0 /\ evictions = 0
    /\ cret = NoCacheRet
    /\ ops = 0
    /\ lastUse = [k \in Keys |-> 0]
    /\ stored = [k \in Keys |-> [at |-> 0, val |-> None]]
    /\ setKeys = {}
    /\ pristine = TRUE

KeysOf(c) == {c[i].key : i \in 1..Len(c)}

\* self._cache.get(key) / self._cache[key]
Entry(c, k) == c[CHOOSE i \in 1..Len(c) : c[i].key = k]

\* del self._cache[key]
Remove(c, k) == SelectSeq(c, LAMBDA e : e.key # k)

\* a hit that leaves the entry where it is
StayInPlace(c, e) == [i \in 1..Len(c) |-> IF c[i].key = e.key THEN e ELSE c[i]]

\* self._cache.move_to_end(key), with the entry as updated by the hit
MoveToEnd(c, e) == Append(Remove(c, e.key), e)

\* _is_expired: age = time.time() - entry.timestamp; age >= self.ttl_seconds
IsExpired(e, t) == t - e.timestamp >= ttl_seconds

\* a hit that also restarts the entry's time to live
TouchAndRenew(e, t) == [e EXCEPT !.access_count = @ + 1, !.last_accessed = t,
                                 !.timestamp = t]

\* get: entry.access_count += 1; entry.last_accessed = time.time()
Touch(e, t) == [e EXCEPT !.access_count = @ + 1, !.last_accessed = t]

\* an eviction test that lets the map grow one past max_size
OverCapacity(len) == len > max_size

\* set: the loop condition len(self._cache) >= self.max_size
AtCapacity(len) == len >= max_size

\* _evict_lru, repeated while the map is at capacity: popitem(last=False)
RECURSIVE EvictLru(_)
EvictLru(c) == IF c # <<>> /\ AtCapacity(Len(c)) THEN EvictLru(Tail(c)) ELSE c

\* CacheEntry(key, value, timestamp=time.time(), ttl, access_count=0, last_accessed)
NewEntry(k, v, t) == [key |-> k, value |-> v, timestamp |-> t, ttl |-> ttl_seconds,
                      access_count |-> 0, last_accessed |-> t]

\* a get that first drops every expired entry, whatever its key
CacheGetPurges(k) ==
    /\ ops < MaxOps
    /\ ops' = ops + 1
    /\ UNCHANGED <<max_size, ttl_seconds, evictions, stored, setKeys>>
    /\ LET live == SelectSeq(cache, LAMBDA e : ~IsExpired(e, now)) IN
       IF k \notin KeysOf(live)
       THEN /\ cache' = live
            /\ misses' = misses + 1
            /\ cret' = [op |-> "get", key |-> k, val |-> None, hit |-> FALSE]
            /\ pristine' = (pristine /\ live = cache)
            /\ UNCHANGED <<hits, lastUse>>
       ELSE LET e == Touch(Entry(live, k), now) IN
            /\ cache' = MoveToEnd(live, e)
            /\ hits' = hits + 1
            /\ cret' = [op |-> "get", key |-> k, val |-> e.value, hit |-> TRUE]
            /\ lastUse' = [lastUse EXCEPT ![k] = ops + 1]
            /\ pristine' = (pristine /\ live = cache)
            /\ UNCHANGED misses

\* get(key)
CacheGet(k) ==
    /\ ops < MaxOps
    /\ ops' = ops + 1
    /\ UNCHANGED <<max_size, ttl_seconds, evictions, stored, setKeys>>
    /\ IF k \notin KeysOf(cache)
       THEN /\ misses' = misses + 1
            /\ cret' = [op |-> "get", key |-> k, val |-> None, hit |-> FALSE]
            /\ UNCHANGED <<cache, hits, lastUse, pristine>>
       ELSE IF IsExpired(Entry(cache, k), now)
       THEN /\ cache' = Remove(cache, k)
            /\ misses' = misses + 1
            /\ cret' = [op |-> "get", key |-> k, val |-> None, hit |-> FALSE]
            /\ pristine' = FALSE
            /\ UNCHANGED <<hits, lastUse>>
       ELSE LET e == Touch(Entry(cache, k), now) IN
            /\ cache' = MoveToEnd(cache, e)
            /\ hits' = hits + 1
            /\ cret' = [op |-> "get", key |-> k, val |-> e.value, hit |-> TRUE]
            /\ lastUse' = [lastUse EXCEPT ![k] = ops + 1]
            /\ UNCHANGED <<misses, pristine>>

\* a set that makes room before it looks whether the key is stored
CacheSetEvictsFirst(k, v) ==
    /\ ops < MaxOps
    /\ ops' = ops + 1
    /\ UNCHANGED <<max_size, ttl_seconds, hits, misses>>
    /\ LET kept == EvictLru(cache)
           removed == IF k \in KeysOf(kept) THEN Remove(kept, k) ELSE kept IN
       /\ cache' = Append(removed, NewEntry(k, v, now))
       /\ evictions' = evictions + (Len(cache) - Len(kept))
    /\ cret' = [op |-> "set", key |-> k, val |-> v, hit |-> FALSE]
    /\ lastUse' = [lastUse EXCEPT ![k] = ops + 1]
    /\ stored' = [stored EXCEPT ![k] = [at |-> now, val |-> v]]
    /\ setKeys' = setKeys \cup {k}
    /\ pristine' = (pristine /\ k \notin setKeys)

\* set(key, value)
CacheSet(k, v) ==
    /\ ops < MaxOps
    /\ ops' = ops + 1
    /\ UNCHANGED <<max_size, ttl_seconds, hits, misses>>
    /\ LET removed == IF k \in KeysOf(cache) THEN Remove(cache, k) ELSE cache
           kept == EvictLru(removed) IN
       /\ cache' = Append(kept, NewEntry(k, v, now))
       /\ evictions' = evictions + (Len(removed) - Len(kept))
    /\ cret' = [op |-> "set", key |-> k, val |-> v, hit |-> FALSE]
    /\ lastUse' = [lastUse EXCEPT ![k] = ops + 1]
    /\ stored' = [stored EXCEPT ![k] = [at |-> now, val |-> v]]
    /\ setKeys' = setKeys \cup {k}
    /\ pristine' = (pristine /\ k \notin setKeys)

\* invalidate(key)
CacheInvalidate(k) ==
    /\ ops < MaxOps
    /\ ops' = ops + 1
    /\ cache' = IF k \in KeysOf(cache) THEN Remove(cache, k) ELSE cache
    /\ cret' = [op |-> "invalidate", key |-> k, val |-> None, hit |-> FALSE]
    /\ pristine' = (pristine /\ k \notin KeysOf(cache))
    /\ UNCHANGED <<max_size, ttl_seconds, hits, misses, evictions, lastUse, stored,
                   setKeys>>

\* a clear that also zeroes the statistics
CacheClearResetsStats ==
    /\ ops < MaxOps
    /\ ops' = ops + 1
    /\ cache' = <<>>
    /\ hits' = 0 /\ misses' = 0 /\ evictions' = 0
    /\ cret' = [op |-> "clear", key |-> None, val |-> None, hit |-> FALSE]
    /\ pristine' = (pristine /\ cache = <<>>)
    /\ UNCHANGED <<max_size, ttl_seconds, lastUse, stored, setKeys>>

\* clear()
CacheClear ==
    /\ ops < MaxOps
    /\ ops' = ops + 1
    /\ cache' = <<>>
    /\ cret' = [op |-> "clear", key |-> None, val |-> None, hit |-> FALSE]
    /\ pristine' = (pristine /\ cache = <<>>)
    /\ UNCHANGED <<max_size, ttl_seconds, hits, misses, evictions, lastUse, stored,
                   setKeys>>

\* a hit rate that takes the misses for the hits
HitRateOfMisses(h, m) ==
    IF h + m > 0 THEN (2 * m * 10000 + (h + m)) \div (2 * (h + m)) ELSE 0

\* get_stats: round(hits / total_requests * 100, 2) if total_requests > 0 else 0,
\* in hundredths of a percent (no quotient of fewer than 32 requests is a tie)
HitRate(h, m) ==
    IF h + m > 0 THEN (2 * h * 10000 + (h + m)) \div (2 * (h + m)) ELSE 0

\* the dictionary get_stats returns
Stats == [size |-> Len(cache), max_size |-> max_size, hits |-> hits,
          misses |-> misses, hit_rate |-> HitRate(hits, misses),
          evictions |-> evictions, ttl_seconds |-> ttl_seconds]

\* get_stats(): a reader, not counted among the calls that bound a run
CacheGetStats ==
    /\ cret' = [op |-> "get_stats", key |-> None, val |-> Stats, hit |-> FALSE]
    /\ UNCHANGED <<max_size, ttl_seconds, cache, hits, misses, evictions, ops,
                   lastUse, stored, setKeys, pristine>>


\* ------------------------------------------------- APICache.generate_key
\* Strings are sequences of character codes; a 32-bit word of the digest is a pair
\* <<high half, low half>> of 16-bit numbers.

\* hashlib.md5: the per-round shift amounts
Md5Shift ==
    <<7, 12, 17, 22, 7, 12, 17, 22, 7, 12, 17, 22, 7, 12, 17, 22,
      5, 9, 14, 20, 5, 9, 14, 20, 5, 9, 14, 20, 5, 9, 14, 20,
      4, 11, 16, 23, 4, 11, 16, 23, 4, 11, 16, 23, 4, 11, 16, 23,
      6, 10, 15, 21, 6, 10, 15, 21, 6, 10, 15, 21, 6, 10, 15, 21>>

\* hashlib.md5: the constants floor(2^32 * abs(sin(i + 1)))
Md5K ==
    <<
      <<55146, 42104>>, <<59591, 46934>>, <<9248, 28891>>, <<49597, 52974>>,
      <<62844, 4015>>, <<18311, 50730>>, <<43056, 17939>>, <<64838, 38145>>,
      <<27008, 39128>>, <<35652, 63407>>, <<65535, 23473>>, <<35164, 55230>>,
      <<27536, 4386>>, <<64920, 29075>>, <<42617, 17294>>, <<18868, 2081>>,
      <<63006, 9570>>, <<49216, 45888>>, <<9822, 23121>>, <<59830, 51114>>,
      <<54831, 4189>>, <<580, 5203>>, <<55457, 59009>>, <<59347, 64456>>,
      <<8673, 52710>>, <<49975, 2006>>, <<62677, 3463>>, <<17754, 5357>>,
      <<43491, 59653>>, <<64751, 41976>>, <<26479, 729>>, <<36138, 19594>>,
      <<65530, 14658>>, <<34673, 63105>>, <<28061, 24866>>, <<64997, 14348>>,
      <<42174, 59972>>, <<19422, 53161>>, <<63163, 19296>>, <<48831, 48240>>,
      <<10395, 32454>>, <<60065, 10234>>, <<54511, 12421>>, <<1160, 7429>>,
      <<55764, 53305>>, <<59099, 39397>>, <<8098, 31992>>, <<50348, 22117>>,
      <<62505, 8772>>, <<17194, 65431>>, <<43924, 9127>>, <<64659, 41017>>,
      <<25947, 22979>>, <<36620, 52370>>, <<65519, 62589>>, <<34180, 24017>>,
      <<28584, 32335>>, <<65068, 59104>>, <<41729, 17172>>, <<19976, 4513>>,
      <<63315, 32386>>, <<48442, 62005>>, <<10967, 53947>>, <<60294, 54161>>>>

RECURSIVE And16(_, _)
And16(a, b) == IF a = 0 \/ b = 0 THEN 0
               ELSE 2 * And16(a \div 2, b \div 2) + ((a % 2) * (b % 2))
Or16(a, b) == a + b - And16(a, b)
Xor16(a, b) == a + b - 2 * And16(a, b)
Not16(a) == 65535 - a

And32(x, y) == <<And16(x[1], y[1]), And16(x[2], y[2])>>
Or32(x, y) == <<Or16(x[1], y[1]), Or16(x[2], y[2])>>
Xor32(x, y) == <<Xor16(x[1], y[1]), Xor16(x[2], y[2])>>
Not32(x) == <<Not16(x[1]), Not16(x[2])>>

\* addition modulo 2^32
Add32(x, y) ==
    LET lo == x[2] + y[2] IN
    <<(x[1] + y[1] + (lo \div 65536)) % 65536, lo % 65536>>

\* rotation to the left by s bits, 0 < s < 32
RotateLeft(x, s) ==
    LET y == IF s >= 16 THEN <<x[2], x[1]>> ELSE x
        r == s % 16
        p == Pow(2, r)
        q == Pow(2, 16 - r) IN
    IF r = 0 THEN y
    ELSE <<((y[1] * p) % 65536) + (y[2] \div q), ((y[2] * p) % 65536) + (y[1] \div q)>>

\* the message padded to a multiple of 64 bytes: 0x80, zeros, and the length in
\* bits as 8 bytes, least significant first
RECURSIVE LittleEndian(_, _)
LittleEndian(n, bytes) ==
    IF bytes = 0 THEN <<>> ELSE <<n % 256>> \o LittleEndian(n \div 256, bytes - 1)

Md5Pad(msg) ==
    LET zeros == (119 - Len(msg)) % 64 IN
    msg \o <<128>> \o [i \in 1..zeros |-> 0] \o LittleEndian(8 * Len(msg), 8)

\* the j-th word (0-based) of the block that starts after `off` bytes
Md5Word(bytes, off, j) ==
    LET b == off + 4 * j IN
    <<bytes[b + 3] + 256 * bytes[b + 4], bytes[b + 1] + 256 * bytes[b + 2]>>

\* one of the 64 operations on the state <<a, b, c, d>>
Md5Step(st, bytes, off, i) ==
    LET a == st[1]
        b == st[2]
        c == st[3]
        d == st[4]
        f == IF i < 16 THEN Or32(And32(b, c), And32(Not32(b), d))
             ELSE IF i < 32 THEN Or32(And32(d, b), And32(Not32(d), c))
             ELSE IF i < 48 THEN Xor32(Xor32(b, c), d)
             ELSE Xor32(c, Or32(b, Not32(d)))
        g == IF i < 16 THEN i
             ELSE IF i < 32 THEN (5 * i + 1) % 16
             ELSE IF i < 48 THEN (3 * i + 5) % 16
             ELSE (7 * i) % 16
        sum == Add32(Add32(a, f), Add32(Md5K[i + 1], Md5Word(bytes, off, g))) IN
    <<d, Add32(b, RotateLeft(sum, Md5Shift[i + 1])), b, c>>

RECURSIVE Md5Rounds(_, _, _, _)
Md5Rounds(st, bytes, off, i) ==
    IF i = 64 \/ Len(st) # 4 THEN st
    ELSE Md5Rounds(Md5Step(st, bytes, off, i), bytes, off, i + 1)

RECURSIVE Md5Blocks(_, _, _)
Md5Blocks(st, bytes, off) ==
    IF off >= Len(bytes) THEN st
    ELSE LET r == Md5Rounds(st, bytes, off, 0) IN
         Md5Blocks(<<Add32(st[1], r[1]), Add32(st[2], r[2]), Add32(st[3], r[3]),
                     Add32(st[4], r[4])>>, bytes, off + 64)

\* hashlib.md5(...).digest(): the state words, least significant byte first
Md5Init == <<<<26437, 8961>>, <<61389, 43913>>, <<39098, 56574>>, <<4146, 21622>>>>
WordBytes(x) == <<x[2] % 256, x[2] \div 256, x[1] % 256, x[1] \div 256>>
Md5(msg) ==
    LET st == Md5Blocks(Md5Init, Md5Pad(msg), 0) IN
    WordBytes(st[1]) \o WordBytes(st[2]) \o WordBytes(st[3]) \o WordBytes(st[4])

\* .hexdigest(): two lowercase hexadecimal digits per byte
HexDigit(n) == IF n < 10 THEN 48 + n ELSE 87 + n
RECURSIVE HexDigest(_)
HexDigest(bytes) ==
    IF bytes = <<>> THEN <<>>
    ELSE <<HexDigit(Head(bytes) \div 16), HexDigit(Head(bytes) % 16)>>
         \o HexDigest(Tail(bytes))

\* the strings used: ASCII codes of their characters
Quote == 34
StrHistoricalData == <<104, 105, 115, 116, 111, 114, 105, 99, 97, 108, 95, 100, 97, 116, 97>>
StrQuote == <<113, 117, 111, 116, 101>>
StrExchange == <<101, 120, 99, 104, 97, 110, 103, 101>>
StrSymbol == <<115, 121, 109, 98, 111, 108>>
StrNSE == <<78, 83, 69>>

\* json.dumps of an int: its decimal digits
RECURSIVE Digits(_)
Digits(n) == IF n < 10 THEN <<48 + n>> ELSE Digits(n \div 10) \o <<48 + (n % 10)>>

\* the endpoints, parameter names and values tried; a value is an int or a str
Endpoints == {StrHistoricalData, StrQuote}
ParamNames == {StrExchange, StrSymbol}
IntValue(n) == [type |-> "int", int |-> n, str |-> <<>>]
StrValue(s) == [type |-> "str", int |-> 0, str |-> s]
ParamValues == {IntValue(1), StrValue(Digits(1)), StrValue(StrNSE)}

\* **params as the call gives them: <<name, value>> pairs in argument order, no
\* name twice
ParamLists ==
    {<<>>} \cup {<<<<n, v>>>> : n \in ParamNames, v \in ParamValues}
           \cup {<<<<n, v>>, <<m, w>>>> :
                    <<n, m>> \in {x \in ParamNames \X ParamNames : x[1] # x[2]},
                    <<v, w>> \in ParamValues \X ParamValues}

\* the order of str in Python: by code point, a proper prefix first
RECURSIVE StrLess(_, _)
StrLess(s, t) ==
    IF t = <<>> THEN FALSE
    ELSE IF s = <<>> THEN TRUE
    ELSE IF Head(s) # Head(t) THEN Head(s) < Head(t)
    ELSE StrLess(Tail(s), Tail(t))

\* items left in the order of the call
Unsorted(items) == items

\* sorted(params.items()): by name, the names being pairwise different
RECURSIVE Sorted(_)
Sorted(items) ==
    IF items = <<>> THEN <<>>
    ELSE LET i == CHOOSE i \in 1..Len(items) :
                      \A j \in 1..Len(items) : j = i \/ StrLess(items[i][1], items[j][1])
         IN <<items[i]>> \o Sorted(SelectSeq(items, LAMBDA x : x # items[i]))

\* json.dumps of a str without characters to escape
JsonStr(s) == <<Quote>> \o s \o <<Quote>>
JsonValue(v) == IF v.type = "int" THEN Digits(v.int) ELSE JsonStr(v.str)

\* json.dumps of the list of (name, value) tuples: [["name", value], ...]
RECURSIVE JsonItems(_)
JsonItems(items) ==
    IF items = <<>> THEN <<>>
    ELSE <<91>> \o JsonStr(Head(items)[1]) \o <<44, 32>> \o JsonValue(Head(items)[2])
         \o <<93>> \o (IF Len(items) > 1 THEN <<44, 32>> ELSE <<>>)
         \o JsonItems(Tail(items))
JsonDumps(items) == <<91>> \o JsonItems(items) \o <<93>>

\* generate_key: f"{endpoint}:{md5(params_str).hexdigest()[:8]}"
GenerateKey(endpoint, params) ==
    endpoint \o <<58>> \o SubSeq(HexDigest(Md5(JsonDumps(Sorted(params)))), 1, 8)

\* the keys of the calls of generate_key with these endpoints and parameters
KeyTable(endpoints, lists) == [e \in endpoints, p \in lists |-> GenerateKey(e, p)]

KeyIdle == [called |-> FALSE, endpoint |-> <<>>, params |-> <<>>, key |-> <<>>]
KeyInit(endpoints, lists) ==
    /\ keyed = [c \in Callers |-> KeyIdle]
    /\ keyOf = KeyTable(endpoints, lists)

\* a call of APICache.generate_key(endpoint, **params) by caller c
GenerateKeyCall(c, endpoint, params) ==
    /\ keyed' = [keyed EXCEPT ![c] = [called |-> TRUE, endpoint |-> endpoint,
                                      params |-> params,
                                      key |-> keyOf[endpoint, params]]]
    /\ UNCHANGED keyOf

\* ------------------------------------------------------------ constructors
NoError == "none"

\* the client's limiter and cache exist, built by constructor calls that returned
Constructed == built = [limiter |-> TRUE, cache |-> TRUE, error |-> NoError]

\* argument checks that let zero through
LimiterArgsNotNegative(r, c) == ~(r < 0) /\ ~(c < 0)

\* RateLimiter.__init__: if rate <= 0: raise ...; if capacity <= 0: raise ...
LimiterArgsValid(r, c) == ~(r <= 0) /\ ~(c <= 0)

\* RateLimiter(rate=r, capacity=c), assigned to the limiter when it returns
RateLimiterNew(r, c) ==
    IF LimiterArgsValid(r, c)
    THEN /\ rate' = r
         /\ capacity' = c
         /\ tokens' = c * Sub
         /\ last_update' = now
         /\ frame' = [x \in Callers |-> IdleFrame]
         /\ lret' = NoRet
         /\ granted' = [t \in Times |-> 0]
         /\ built' = [built EXCEPT !.limiter = TRUE, !.error = NoError]
    ELSE /\ built' = [built EXCEPT !.error = "ValueError"]
         /\ UNCHANGED limVars

\* argument checks that let zero through
CacheArgsNotNegative(m, ttl) == ~(m < 0) /\ ~(ttl < 0)

\* APICache.__init__: if max_size <= 0: raise ...; if ttl_seconds <= 0: raise ...
CacheArgsValid(m, ttl) == ~(m <= 0) /\ ~(ttl <= 0)

\* APICache(max_size=m, ttl_seconds=ttl), assigned to the cache when it returns
APICacheNew(m, ttl) ==
    IF CacheArgsValid(m, ttl)
    THEN /\ max_size' = m
         /\ ttl_seconds' = ttl
         /\ cache' = <<>>
         /\ hits' = 0 /\ misses' = 0 /\ evictions' = 0
         /\ cret' = NoCacheRet
         /\ ops' = 0
         /\ lastUse' = [k \in Keys |-> 0]
         /\ stored' = [k \in Keys |-> [at |-> 0, val |-> None]]
         /\ setKeys' = {}
         /\ pristine' = TRUE
         /\ built' = [built EXCEPT !.cache = TRUE, !.error = NoError]
    ELSE /\ built' = [built EXCEPT !.error = "ValueError"]
         /\ UNCHANGED cacheVars

\* ------------------------------------- AngelOneClient.get_historical_data
GuardTimeout == 1   \* acquire(tokens=1, timeout=10.0), scaled to the ticks of the model

\* what smart_api.getCandleData does at one invocation: a response with a 'data'
\* entry (a payload, or None), a response without one, a response whose message
\* reports a rate limit, or an error raised
Responses ==
    {[kind |-> "data", data |-> "v1", err |-> "none"],
     [kind |-> "data", data |-> None, err |-> "none"],
     [kind |-> "nodata", data |-> None, err |-> "none"],
     [kind |-> "ratemsg", data |-> None, err |-> "none"],
     [kind |-> "raise", data |-> None, err |-> "ValueError"]}
NoResponse == [kind |-> "none", data |-> None, err |-> "none"]

\* the retrier of get_historical_data: max_retries=3, initial_delay=1.0,
\* max_delay=10.0, exponential_base=2.0, retry_on=(RateLimitError, NetworkError,
\* Exception)
GuardRetryInit ==
    RetryInit(3, <<1, 2, 10>>, {"RateLimitError", "NetworkError", "Exception"},
              [i \in 1..(MaxRetries + 1) |-> "ok"])

IdleCall == [pc |-> "idle", key |-> None, fr |-> NewRetry, resp |-> NoResponse,
             hit |-> FALSE, hitVal |-> None, took |-> 0, ret |-> None,
             path |-> "none"]

\* AngelOneClient.__init__: self.authenticated = False
GuardInit ==
    /\ authenticated = FALSE
    /\ gcall = [g \in Callers |-> IdleCall]

\* the call ends: what it returns and by which path
Return(call, v, path) == [call EXCEPT !.pc = "done", !.ret = v, !.path = path]

\* _fetch_data: the response is returned unless its message reports a rate limit,
\* which raises RateLimitError; an error of getCandleData is raised as it is
FetchData(resp, idx) ==
    [kind |-> IF resp.kind = "raise" THEN resp.err
              ELSE IF resp.kind = "ratemsg" THEN "RateLimitError"
              ELSE "ok",
     idx |-> idx]

\* if cached_data is not None
CachedDataPresent(r) == r.val # None

\* the call starts: lazy authentication, then generate_key
GuardStart(g, k, authOk) ==
    /\ gcall[g].pc \in {"idle", "done"}
    /\ IF authenticated \/ authOk
       THEN /\ authenticated' = TRUE
            /\ gcall' = [gcall EXCEPT ![g] = [IdleCall EXCEPT !.pc = "lookup", !.key = k]]
       ELSE /\ UNCHANGED authenticated
            /\ gcall' = [gcall EXCEPT ![g] = Return([IdleCall EXCEPT !.key = k], None,
                                                    "auth_failed")]

\* cached_data = self.cache.get(cache_key); a value that is not None is returned
GuardLookup(g) ==
    /\ gcall[g].pc = "lookup"
    /\ CacheGet(gcall[g].key)
    /\ LET looked == [gcall[g] EXCEPT !.hit = cret'.hit, !.hitVal = cret'.val] IN
       gcall' = [gcall EXCEPT ![g] =
                    IF CachedDataPresent(cret') THEN Return(looked, cret'.val, "hit")
                    ELSE [looked EXCEPT !.pc = "admit"]]
    /\ UNCHANGED authenticated

\* self.rate_limiter.acquire(tokens=1, timeout=10.0) is called
GuardAdmit(g) ==
    /\ gcall[g].pc = "admit"
    /\ AcquireCall(g, 1, TRUE, GuardTimeout)
    /\ gcall' = [gcall EXCEPT ![g].pc = "acquiring"]
    /\ UNCHANGED authenticated

\* an acquire whose False is not looked at
GuardAcquireUnchecked(g) ==
    /\ gcall[g].pc = "acquiring"
    /\ \/ AcquireCheck(g)
       \/ AcquireTimeout(g)
       \/ AcquireWait(g)
       \/ AcquireSleep(g)
    /\ gcall' = [gcall EXCEPT ![g] =
                    IF frame'[g].pc # "idle" THEN @
                    ELSE IF lret'.err = "none" THEN [@ EXCEPT !.pc = "fetch", !.took = @ + 1]
                    ELSE Return(@, None, "error")]
    /\ UNCHANGED authenticated

\* a step of that acquire; when it ends: True goes on to the fetch, False raises
\* RateLimitError("Rate limit timeout"), which `except RateLimitError` turns into
\* return None, as `except Exception` does with an error of acquire
GuardAcquire(g) ==
    /\ gcall[g].pc = "acquiring"
    /\ \/ AcquireCheck(g)
       \/ AcquireTimeout(g)
       \/ AcquireWait(g)
       \/ AcquireSleep(g)
    /\ gcall' = [gcall EXCEPT ![g] =
                    IF frame'[g].pc # "idle" THEN @
                    ELSE IF lret'.ok THEN [@ EXCEPT !.pc = "fetch", !.took = @ + 1]
                    ELSE IF lret'.err = "none" THEN Return(@, None, "rate_timeout")
                    ELSE Return(@, None, "error")]
    /\ UNCHANGED authenticated

\* a fetch whose error is raised to the caller of get_historical_data
GuardFetchPropagates(g, resp) ==
    /\ gcall[g].pc = "fetch" /\ gcall[g].fr.pc = "loop"
    /\ LET fr == WrapperAttempt(gcall[g].fr, FetchData(resp, gcall[g].fr.calls + 1)) IN
       gcall' = [gcall EXCEPT ![g] =
                    IF fr.pc = "returned" THEN [@ EXCEPT !.fr = fr, !.resp = resp,
                                                         !.pc = "store"]
                    ELSE IF fr.pc = "raised"
                    THEN Return([@ EXCEPT !.fr = fr], fr.error.kind,
                                IF fr.error.kind = "RateLimitError"
                                THEN "rate_limit_error" ELSE "error")
                    ELSE [@ EXCEPT !.fr = fr]]
    /\ UNCHANGED authenticated

\* one attempt of the decorated _fetch_data; when the retrier raises, `except
\* RateLimitError` and `except Exception` both return None
GuardFetch(g, resp) ==
    /\ gcall[g].pc = "fetch" /\ gcall[g].fr.pc = "loop"
    /\ LET fr == WrapperAttempt(gcall[g].fr, FetchData(resp, gcall[g].fr.calls + 1)) IN
       gcall' = [gcall EXCEPT ![g] =
                    IF fr.pc = "returned" THEN [@ EXCEPT !.fr = fr, !.resp = resp,
                                                         !.pc = "store"]
                    ELSE IF fr.pc = "raised"
                    THEN Return([@ EXCEPT !.fr = fr], None,
                                IF fr.error.kind = "RateLimitError"
                                THEN "rate_limit_error" ELSE "error")
                    ELSE [@ EXCEPT !.fr = fr]]
    /\ UNCHANGED authenticated

\* a retrier whose every further attempt goes through the limiter again
GuardSleepReadmits(g) ==
    /\ gcall[g].pc = "fetch" /\ gcall[g].fr.pc = "sleep"
    /\ gcall' = [gcall EXCEPT ![g].fr = WrapperSleep(@), ![g].pc = "admit"]
    /\ UNCHANGED authenticated

\* the retrier's time.sleep(delay) between two attempts
GuardSleep(g) ==
    /\ gcall[g].pc = "fetch" /\ gcall[g].fr.pc = "sleep"
    /\ gcall' = [gcall EXCEPT ![g].fr = WrapperSleep(@)]
    /\ UNCHANGED authenticated

\* a store that leaves alone an entry another call has stored in the meantime
GuardStoreIfAbsent(g) ==
    /\ gcall[g].pc = "store"
    /\ IF gcall[g].resp.kind = "data" /\ gcall[g].key \notin KeysOf(cache)
       THEN /\ CacheSet(gcall[g].key, gcall[g].resp.data)
            /\ gcall' = [gcall EXCEPT ![g] = Return(@, gcall[g].resp.data, "fetched")]
       ELSE /\ UNCHANGED cacheVars
            /\ gcall' = [gcall EXCEPT ![g] =
                            Return(@, IF gcall[g].resp.kind = "data"
                                      THEN gcall[g].resp.data ELSE None,
                                   IF gcall[g].resp.kind = "data"
                                   THEN "fetched" ELSE "nodata")]
    /\ UNCHANGED authenticated

\* if response and 'data' in response: cache.set(cache_key, data); return data;
\* else return None
GuardStore(g) ==
    /\ gcall[g].pc = "store"
    /\ IF gcall[g].resp.kind = "data"
       THEN /\ CacheSet(gcall[g].key, gcall[g].resp.data)
            /\ gcall' = [gcall EXCEPT ![g] = Return(@, gcall[g].resp.data, "fetched")]
       ELSE /\ UNCHANGED cacheVars
            /\ gcall' = [gcall EXCEPT ![g] = Return(@, None, "nodata")]
    /\ UNCHANGED authenticated

\* ------------------------------------------ AllocationTracker, OrderManager
MaxDay == 1         \* the days run over 0..MaxDay
MaxList == 2        \* the longest stocks_list passed to place_orders_for_stocks
MaxLog == 4         \* orders and marks per run

Days == 0..MaxDay
Symbols == {"SBIN", "TCS"}
\* stock_data: its symbol, and whether symbol, token and current_price are all there
Stocks == [symbol : Symbols, complete : BOOLEAN]
StockLists == UNION {[1..n -> Stocks] : n \in 0..MaxList}
\* what client.place_order does: returns None, a response with an order id, a
\* response without one, or a response whose 'data' is None
OrderResponses == {"none", "id", "noid", "baddata"}

Members(q) == {q[i] : i \in 1..Len(q)}
NoOrderRet == [op |-> "none", last |-> "None", results |-> <<>>, skipped |-> <<>>]

\* AllocationTracker.__init__ on a file that does not exist, and the configuration
AllocInit(sim) ==
    /\ today = 0
    /\ simulate = sim
    /\ allocations = <<>>
    /\ orderlog = <<>>
    /\ oret = NoOrderRet

\* is_allocated_today(symbol)
IsAllocatedToday(al, d, s) ==
    d \in DOMAIN al /\ s \in Members(al[d].allocated_companies)

\* mark_allocated(symbol, order_id, amount)
MarkAllocated(al, d, s, order_id) ==
    LET a1 == IF d \in DOMAIN al THEN al
              ELSE al @@ (d :> [date |-> d, allocated_companies |-> <<>>,
                                orders |-> <<>>])
        a2 == IF s \notin Members(a1[d].allocated_companies)
              THEN [a1 EXCEPT ![d].allocated_companies = Append(@, s)]
              ELSE a1 IN
    IF order_id # None
    THEN [a2 EXCEPT ![d].orders = Append(@, [symbol |-> s, order_id |-> order_id])]
    ELSE a2

OrderEvent(s, d, sim) == [ev |-> "order", symbol |-> s, day |-> d, simulated |-> sim]
MarkEvent(s, d) == [ev |-> "mark", symbol |-> s, day |-> d, simulated |-> FALSE]

\* _simulate_order: the simulated order, then mark_allocated
SimulateOrder(st, d, s) ==
    [st EXCEPT !.al = MarkAllocated(st.al, d, s, "SIM"),
               !.log = Append(Append(@, OrderEvent(s, d, TRUE)), MarkEvent(s, d)),
               !.last = "success"]

\* the branch of place_order_for_stock that places a real order: a response that
\* is None gives a failure, one whose 'data' is None raises TypeError at the
\* extraction of the order id, after the order was placed; any other is marked
RealOrder(st, d, s, resp) ==
    IF resp = "none" THEN [st EXCEPT !.last = "failure"]
    ELSE IF resp = "baddata"
    THEN [st EXCEPT !.log = Append(@, OrderEvent(s, d, FALSE)), !.last = "raise"]
    ELSE [st EXCEPT !.al = MarkAllocated(st.al, d, s, IF resp = "id" THEN "ID" ELSE None),
                    !.log = Append(Append(@, OrderEvent(s, d, FALSE)), MarkEvent(s, d)),
                    !.last = "success"]

\* a place_order_for_stock that does not ask the tracker
PlaceOrderForStockUnchecked(st, d, stock, resp) ==
    IF ~stock.complete THEN [st EXCEPT !.last = "None"]
    ELSE IF simulate THEN SimulateOrder(st, d, stock.symbol)
    ELSE RealOrder(st, d, stock.symbol, resp)

\* place_order_for_stock(stock_data), on the tracker and log of st; skipped are
\* the symbols it logs as "already allocated today, skipping"
PlaceOrderForStock(st, d, stock, resp) ==
    IF ~stock.complete THEN [st EXCEPT !.last = "None"]
    ELSE IF IsAllocatedToday(st.al, d, stock.symbol)
    THEN [st EXCEPT !.last = "None", !.skipped = Append(@, stock.symbol)]
    ELSE IF simulate THEN SimulateOrder(st, d, stock.symbol)
    ELSE RealOrder(st, d, stock.symbol, resp)

\* the loop of place_orders_for_stocks: a result that is not None is appended, an
\* error raised is caught and appended as a failure
RECURSIVE ProcessStocks(_, _, _, _)
ProcessStocks(st, d, stocks, resps) ==
    IF stocks = <<>> THEN st
    ELSE LET r == PlaceOrderForStock(st, d, Head(stocks), Head(resps))
             kept == IF r.last = "None" THEN r
                     ELSE [r EXCEPT !.results =
                              Append(@, [symbol |-> Head(stocks).symbol,
                                         success |-> r.last = "success"])] IN
         ProcessStocks(kept, d, Tail(stocks), Tail(resps))

\* place_orders_for_stocks(stocks_list, max_stocks)
PlaceOrdersForStocks(st, d, list, max_stocks, resps) ==
    LET eligible_stocks ==
            SelectSeq(list, LAMBDA stock : ~IsAllocatedToday(st.al, d, stock.symbol))
        stocks_to_process ==
            SubSeq(eligible_stocks, 1, Min(max_stocks, Len(eligible_stocks))) IN
    ProcessStocks(st, d, stocks_to_process, resps)

TrackerState ==
    [al |-> allocations, log |-> orderlog, last |-> "None", results |-> <<>>,
     skipped |-> <<>>]

\* a call of place_order_for_stock
PlaceOrderCall(stock, resp) ==
    LET r == PlaceOrderForStock(TrackerState, today, stock, resp) IN
    /\ Len(r.log) <= MaxLog
    /\ allocations' = r.al
    /\ orderlog' = r.log
    /\ oret' = [op |-> "place_order_for_stock", last |-> r.last, results |-> <<>>,
                skipped |-> r.skipped]
    /\ UNCHANGED <<today, simulate>>

\* a call of place_orders_for_stocks
PlaceOrdersCall(list, max_stocks, resps) ==
    LET r == PlaceOrdersForStocks(TrackerState, today, list, max_stocks, resps) IN
    /\ Len(r.log) <= MaxLog
    /\ allocations' = r.al
    /\ orderlog' = r.log
    /\ oret' = [op |-> "place_orders_for_stocks", last |-> "None",
                results |-> r.results, skipped |-> r.skipped]
    /\ UNCHANGED <<today, simulate>>

\* midnight
NextDay ==
    /\ today < MaxDay
    /\ today' = today + 1
    /\ UNCHANGED <<simulate, allocations, orderlog, oret>>

\* ------------------------------------------------------ specification: cache
\* Any sequence of get, set, invalidate and clear; every call is one critical
\* section of the cache's lock, so an interleaving of callers is a sequence.
InitCache ==
    /\ now = 0
    /\ LimiterInit(1, 1)
    /\ \E cfg \in CacheConfigs : CacheInit(cfg[1], cfg[2])
    /\ RetryInit(0, <<1, 2, 10>>, {"Exception"}, [i \in 1..(MaxRetries + 1) |-> "ok"])
    /\ GuardInit
    /\ KeyInit({}, {})
    /\ AllocInit(FALSE)
    /\ Constructed

NextCache ==
    \/ Tick /\ UNCHANGED <<limVars, cacheVars, retryVars, guardVars, keyVars, instVars, allocVars>>
    \/ \E k \in Keys : CacheGet(k) /\ UNCHANGED <<now, limVars, retryVars, guardVars, keyVars, instVars, allocVars>>
    \/ \E k \in Keys, v \in Values : CacheSet(k, v) /\ UNCHANGED <<now, limVars, retryVars, guardVars, keyVars, instVars, allocVars>>
    \/ \E k \in Keys : CacheInvalidate(k) /\ UNCHANGED <<now, limVars, retryVars, guardVars, keyVars, instVars, allocVars>>
    \/ CacheClear /\ UNCHANGED <<now, limVars, retryVars, guardVars, keyVars, instVars, allocVars>>
    \/ CacheGetStats /\ UNCHANGED <<now, limVars, retryVars, guardVars, keyVars, instVars, allocVars>>

SpecCache == InitCache /\ [][NextCache]_vars

\* a step that completes a call of the cache
CacheStep(op) == ops' = ops + 1 /\ cret'.op = op

\* C3: the map never holds more than max_size entries, and after N sets of pairwise
\* distinct keys into the empty cache, nothing removed, it holds min(N, max_size).
C3_SizeWithinMax ==
    /\ Len(cache) <= max_size
    /\ pristine => Len(cache) = Min(Cardinality(setKeys), max_size)

\* C3 witness: more distinct keys were set than the cache can hold.
C3_Witness ==
    pristine /\ Cardinality(setKeys) > max_size /\ max_size > 1 /\ Len(cache) = max_size

\* C4: a get of a stored key returns the value of its last set while less than ttl
\* has passed since that set, whatever reads came in between; from then on it
\* returns absent and removes the entry. A hit leaves the insertion time alone.
C4_TtlAbsolute ==
    [][(CacheStep("get") /\ cret'.key \in KeysOf(cache)) =>
        LET k == cret'.key IN
        IF now - stored[k].at < ttl_seconds
        THEN /\ cret'.hit /\ cret'.val = stored[k].val
             /\ k \in KeysOf(cache')
             /\ Entry(cache', k).timestamp = stored[k].at
        ELSE /\ ~cret'.hit /\ cret'.val = None
             /\ k \notin KeysOf(cache')]_vars

\* C4 witness: one key was set, read with a hit, and read again once its time to
\* live was over: the second read missed and removed it.
C4_Witness ==
    /\ ops = 3 /\ hits = 1 /\ misses = 1 /\ cret.op = "get" /\ ~cret.hit
    /\ setKeys = {cret.key} /\ cache = <<>>
    /\ now - stored[cret.key].at >= ttl_seconds

\* C5: a set of a key not stored, into a full cache, removes exactly one entry, the
\* one whose last set or get hit is the oldest; every other entry stays as it was.
C5_LruVictim ==
    [][(CacheStep("set") /\ cret'.key \notin KeysOf(cache) /\ Len(cache) = max_size) =>
        \E victim \in KeysOf(cache) :
            /\ KeysOf(cache') = (KeysOf(cache) \ {victim}) \cup {cret'.key}
            /\ \A k \in KeysOf(cache) : lastUse[victim] <= lastUse[k]
            /\ \A k \in KeysOf(cache) \ {victim} : Entry(cache', k) = Entry(cache, k)
            /\ evictions' = evictions + 1]_vars

\* C5 witness: set, set, a hit on the first key, then a third key: the entry that
\* was hit survives the eviction although it was set first.
C5_Witness ==
    /\ max_size = 2 /\ ops = 4 /\ hits = 1 /\ evictions = 1 /\ cret.op = "set"
    /\ Cardinality(setKeys) = 3 /\ Len(cache) = 2
    /\ cache[1].access_count = 1 /\ cache[2].key = cret.key

\* ---------------------------------------------------- specification: limiter
\* Any number of calls of try_acquire, get_available_tokens and acquire by the
\* callers, interleaved at the granularity of the critical sections.
\* the arguments tried: non-positive, valid, and above every capacity constructed
TokenArgs == 0..3

InitLimiter ==
    /\ now = 0
    /\ \E cfg \in LimiterConfigs : LimiterInit(cfg[1], cfg[2])
    /\ CacheInit(1, 1)
    /\ RetryInit(0, <<1, 2, 10>>, {"Exception"}, [i \in 1..(MaxRetries + 1) |-> "ok"])
    /\ GuardInit
    /\ KeyInit({}, {})
    /\ AllocInit(FALSE)
    /\ Constructed

NextLimiter ==
    \/ Tick /\ UNCHANGED <<limVars, cacheVars, retryVars, guardVars, keyVars, instVars, allocVars>>
    \/ \E c \in Callers, n \in TokenArgs : TryAcquire(c, n) /\ UNCHANGED <<now, cacheVars, retryVars, guardVars, keyVars, instVars, allocVars>>
    \/ \E c \in Callers : GetAvailableTokens(c) /\ UNCHANGED <<now, cacheVars, retryVars, guardVars, keyVars, instVars, allocVars>>
    \/ \E c \in Callers, n \in TokenArgs, h \in BOOLEAN :
          AcquireCall(c, n, h, IF h THEN 1 ELSE 0) /\ UNCHANGED <<now, cacheVars, retryVars, guardVars, keyVars, instVars, allocVars>>
    \/ \E c \in Callers : AcquireCheck(c) /\ UNCHANGED <<now, cacheVars, retryVars, guardVars, keyVars, instVars, allocVars>>
    \/ \E c \in Callers : AcquireTimeout(c) /\ UNCHANGED <<now, cacheVars, retryVars, guardVars, keyVars, instVars, allocVars>>
    \/ \E c \in Callers : AcquireWait(c) /\ UNCHANGED <<now, cacheVars, retryVars, guardVars, keyVars, instVars, allocVars>>
    \/ \E c \in Callers : AcquireSleep(c) /\ UNCHANGED <<now, cacheVars, retryVars, guardVars, keyVars, instVars, allocVars>>

SpecLimiter == InitLimiter /\ [][NextLimiter]_vars

\* whole tokens granted at the ticks s..e
RECURSIVE GrantedIn(_, _)
GrantedIn(s, e) == IF s > e THEN 0 ELSE granted[s] + GrantedIn(s + 1, e)

\* C1: in every state outside the critical sections 0 <= tokens <= capacity, and
\* get_available_tokens returns a value in 0..capacity.
C1_TokensWithinCapacity ==
    /\ 0 <= tokens /\ tokens <= capacity * Sub
    /\ lret.op = "get_available_tokens" => lret.val \in 0..capacity

\* C1 witness: tokens were taken, time passed, and get_available_tokens found the
\* bucket refilled up to its capacity.
C1_Witness ==
    /\ lret.op = "get_available_tokens" /\ lret.val = capacity
    /\ granted[0] > 0 /\ now = MaxTime /\ last_update = now

\* C2: the tokens granted in any interval of ticks s..e are at most
\* capacity + rate * (e - s); with no time elapsed, at most capacity.
C2_GrantsBounded ==
    \A s \in Times, e \in Times :
        (s <= e /\ e <= now) =>
            GrantedIn(s, e) * Sub <= capacity * Sub + rate * (e - s)

\* C2 witness: an interval that starts with a grant, ends with a later grant and
\* reaches the bound exactly.
C2_Witness ==
    \E s \in Times, e \in Times :
        /\ s < e /\ e <= now /\ granted[s] > 0 /\ granted[e] > 0
        /\ GrantedIn(s, e) * Sub = capacity * Sub + rate * (e - s)

\* ---------------------------------------------------- specification: retrier
\* One call of each retrier on an operation whose outcome at every invocation is
\* given by the script, for every configuration tried.
InitRetry ==
    /\ now = 0
    /\ LimiterInit(1, 1)
    /\ CacheInit(1, 1)
    /\ \E m \in (-1)..MaxRetries, d \in DelayConfigs, on \in RetryOnSets,
          sc \in [1..(MaxRetries + 1) -> Kinds] : RetryInit(m, d, on, sc)
    /\ GuardInit
    /\ KeyInit({}, {})
    /\ AllocInit(FALSE)
    /\ Constructed

NextRetry ==
    \/ WrapperCall /\ UNCHANGED <<now, limVars, cacheVars, guardVars, keyVars, instVars, allocVars>>
    \/ WrapperWait /\ UNCHANGED <<now, limVars, cacheVars, guardVars, keyVars, instVars, allocVars>>
    \/ ExecuteCall /\ UNCHANGED <<now, limVars, cacheVars, guardVars, keyVars, instVars, allocVars>>
    \/ ExecuteWait /\ UNCHANGED <<now, limVars, cacheVars, guardVars, keyVars, instVars, allocVars>>

SpecRetry == InitRetry /\ [][NextRetry]_vars

\* the invocations a call may make, and what the script says of them
Attempts == 1..(max_retries + 1)
Retryable(i) == script[i] # "ok" /\ \E cls \in retry_on : IsInstance(script[i], cls)
RetryableUpTo(k) == \A i \in 1..(k - 1) : Retryable(i)
AllRetryableFail == max_retries >= 0 /\ \A i \in Attempts : Retryable(i)
Finished(fr) == fr.pc \in {"returned", "raised"}
Backoff(i) == Min(initial_delay * Pow(exponential_base, i), max_delay)

\* C6: when every attempt fails with a retryable error, each retrier invokes the
\* operation exactly max_retries + 1 times and then raises the last attempt's error.
C6_AttemptsExhausted ==
    \A r \in Retriers :
        AllRetryableFail =>
            /\ retr[r].pc # "returned"
            /\ retr[r].calls <= max_retries + 1
            /\ retr[r].calls = max_retries + 1 <=> Finished(retr[r])
            /\ Finished(retr[r]) =>
                  retr[r].error = [kind |-> script[max_retries + 1],
                                   idx |-> max_retries + 1]

\* C6 witness: both retriers gave up after the largest budget tried.
C6_Witness ==
    /\ AllRetryableFail /\ max_retries = MaxRetries
    /\ \A r \in Retriers : retr[r].pc = "raised" /\ retr[r].calls = MaxRetries + 1

\* C7: the i-th sleep (0-based) follows a failed retryable attempt i < max_retries
\* and lasts min(initial_delay * exponential_base^i, max_delay); the sleeps of a
\* call never decrease nor exceed max_delay, a permanently failing call sleeps
\* max_retries times, and nothing is slept after the attempt that ends the call.
C7_BackoffSchedule ==
    \A r \in Retriers :
        LET fr == retr[r]
            sl == fr.sleeps IN
        /\ \A j \in 1..Len(sl) :
              /\ sl[j] = Backoff(j - 1) /\ sl[j] <= max_delay
              /\ Retryable(j) /\ j - 1 < max_retries
        /\ \A j \in 1..(Len(sl) - 1) : sl[j] <= sl[j + 1]
        /\ fr.pc = "sleep" =>
              /\ fr.delay = Backoff(Len(sl)) /\ fr.calls = Len(sl) + 1
              /\ Len(sl) < max_retries
        /\ (Finished(fr) /\ fr.calls >= 1) => Len(sl) = fr.calls - 1
        /\ (AllRetryableFail /\ Finished(fr)) => Len(sl) = max_retries
        /\ (AllRetryableFail /\ Finished(fr) /\ max_retries = 2 /\ initial_delay = 1
              /\ exponential_base = 2 /\ max_delay = 10) => sl = <<1, 2>>

\* C7 witness: max_retries = 2, initial_delay = 1, base 2, max_delay = 10, an
\* operation that always fails: both retriers slept 1, then 2, and raised.
C7_Witness ==
    /\ AllRetryableFail /\ max_retries = 2 /\ initial_delay = 1 /\ max_delay = 10
    /\ \A r \in Retriers : retr[r].pc = "raised" /\ retr[r].sleeps = <<1, 2>>

\* C8: when the operation fails retryably k times and then returns, the retrier
\* returns that value after k + 1 invocations and k sleeps, and invokes nothing
\* and sleeps nothing further.
C8_StopsOnSuccess ==
    \A r \in Retriers : \A k \in Attempts :
        (script[k] = "ok" /\ RetryableUpTo(k)) =>
            /\ retr[r].calls <= k /\ Len(retr[r].sleeps) <= k - 1
            /\ retr[r].pc # "raised"
            /\ retr[r].calls = k <=> retr[r].pc = "returned"
            /\ retr[r].pc = "returned" =>
                  /\ retr[r].result = [kind |-> "ok", idx |-> k]
                  /\ Len(retr[r].sleeps) = k - 1 /\ retr[r].delay = 0

\* C8 witness: both retriers returned the value of the third invocation.
C8_Witness ==
    \A r \in Retriers :
        /\ retr[r].pc = "returned" /\ retr[r].calls = 3 /\ Len(retr[r].sleeps) = 2
        /\ retr[r].result.idx = 3

\* C9: an error that retry_on does not name is raised to the caller at the attempt
\* where it occurs, whatever the attempt: no further invocation, no sleep for it.
C9_NonRetryablePropagates ==
    \A r \in Retriers : \A k \in Attempts :
        (script[k] # "ok" /\ ~Retryable(k) /\ RetryableUpTo(k)) =>
            /\ retr[r].calls <= k /\ Len(retr[r].sleeps) <= k - 1
            /\ retr[r].pc # "returned"
            /\ retr[r].calls = k <=> retr[r].pc = "raised"
            /\ retr[r].pc = "raised" =>
                  /\ retr[r].error = [kind |-> script[k], idx |-> k]
                  /\ Len(retr[r].sleeps) = k - 1 /\ retr[r].delay = 0

\* C9 witness: a retryable failure, then a ValueError that retry_on does not name:
\* two invocations, one sleep, and the ValueError is raised.
C9_Witness ==
    /\ max_retries = MaxRetries /\ retry_on = {"RetryableError"}
    /\ \A r \in Retriers :
        /\ retr[r].pc = "raised" /\ retr[r].calls = 2 /\ Len(retr[r].sleeps) = 1
        /\ retr[r].error = [kind |-> "ValueError", idx |-> 2]

\* ------------------------------------------------- specification: the client
\* Two callers of get_historical_data on one client; the limiter, the cache and the
\* timeout are scaled down to the clock of the model.
GuardKeys == {"a"}

InitGuard ==
    /\ now = 0
    /\ LimiterInit(1, 1)
    /\ CacheInit(1, 2)
    /\ GuardRetryInit
    /\ GuardInit
    /\ KeyInit({}, {})
    /\ AllocInit(FALSE)
    /\ Constructed

NextGuard ==
    \/ Tick /\ UNCHANGED <<limVars, cacheVars, retryVars, guardVars, keyVars, instVars, allocVars>>
    \/ \E g \in Callers, k \in GuardKeys, a \in BOOLEAN :
          GuardStart(g, k, a) /\ UNCHANGED <<now, limVars, cacheVars, retryVars, keyVars, instVars, allocVars>>
    \/ \E g \in Callers : GuardLookup(g) /\ UNCHANGED <<now, limVars, retryVars, keyVars, instVars, allocVars>>
    \/ \E g \in Callers : GuardAdmit(g) /\ UNCHANGED <<now, cacheVars, retryVars, keyVars, instVars, allocVars>>
    \/ \E g \in Callers : GuardAcquire(g) /\ UNCHANGED <<now, cacheVars, retryVars, keyVars, instVars, allocVars>>
    \/ \E g \in Callers, resp \in Responses :
          GuardFetch(g, resp) /\ UNCHANGED <<now, limVars, cacheVars, retryVars, keyVars, instVars, allocVars>>
    \/ \E g \in Callers : GuardSleep(g) /\ UNCHANGED <<now, limVars, cacheVars, retryVars, keyVars, instVars, allocVars>>
    \/ \E g \in Callers : GuardStore(g) /\ UNCHANGED <<now, limVars, retryVars, keyVars, instVars, allocVars>>

SpecGuard == InitGuard /\ [][NextGuard]_vars

\* C10: a lookup that the cache counts as a hit ends the call there: it returns the
\* entry's value, and the call takes no token and makes no fetch.
C10_HitReturnsAtOnce ==
    \A g \in Callers :
        gcall[g].hit =>
            /\ gcall[g].pc = "done" /\ gcall[g].path = "hit"
            /\ gcall[g].ret = gcall[g].hitVal
            /\ gcall[g].took = 0 /\ gcall[g].fr = NewRetry

\* the step in which the acquire of caller g returns False
AcquireDenied(g) ==
    /\ gcall[g].pc = "acquiring" /\ frame[g].pc # "idle" /\ frame'[g].pc = "idle"
    /\ ~lret'.ok /\ lret'.err = "none"

\* C11: when acquire(1, timeout) returns False the call ends there with the failure
\* value None: the fetch was not and is not invoked in that call, and the cache is
\* left as it was.
C11_DeniedNeverFetches ==
    [][\A g \in Callers :
          AcquireDenied(g) =>
              /\ gcall'[g].pc = "done" /\ gcall'[g].ret = None
              /\ gcall'[g].path = "rate_timeout"
              /\ gcall'[g].fr = NewRetry /\ gcall'[g].took = 0
              /\ UNCHANGED cacheVars]_vars

\* C11 witness: a call that missed the cache was denied by the limiter and ended
\* without an invocation of the fetch, while the other caller holds the token.
C11_Witness ==
    \E g \in Callers, h \in Callers :
        /\ g # h /\ gcall[h].took = 1
        /\ gcall[g].pc = "done" /\ gcall[g].path = "rate_timeout"
        /\ gcall[g].fr.calls = 0 /\ misses >= 2 /\ lret.op = "acquire" /\ ~lret.ok

\* the entries of the cache as key/value pairs
Stored(c) == {<<c[i].key, c[i].value>> : i \in 1..Len(c)}

\* the step in which the call of caller g ends with the failure value None
EndsInFailure(g) == gcall[g].pc # "done" /\ gcall'[g].pc = "done" /\ gcall'[g].ret = None

\* C12: no entry of the cache holds a failure value, and a call that ends in failure
\* leaves the keys and values of the cache as they were.
C12_FailuresNotCached ==
    [][/\ \A i \in 1..Len(cache') : cache'[i].value # None
       /\ \A g \in Callers : EndsInFailure(g) => Stored(cache') = Stored(cache)]_vars

\* the errors of the fetch that the error taxonomy calls retryable
Transient == {"RateLimitError", "NetworkError"}

\* C13: an attempt of the fetch that raises an error which is neither a rate-limit
\* nor a network error ends the call at that attempt with that error: no sleep is
\* scheduled, and when it is the first attempt the fetch was invoked exactly once.
C13_FatalNotRetried ==
    [][\A g \in Callers : \A resp \in Responses :
          (resp.kind = "raise" /\ resp.err \notin Transient /\ GuardFetch(g, resp)) =>
              /\ gcall'[g].pc = "done"
              /\ gcall'[g].fr.pc = "raised" /\ gcall'[g].fr.error.kind = resp.err
              /\ gcall'[g].fr.delay = 0 /\ gcall'[g].fr.sleeps = gcall[g].fr.sleeps
              /\ gcall[g].fr.calls = 0 => gcall'[g].fr.calls = 1]_vars

\* the kind of failure a finished call went through, if any
FailureKind(call) ==
    IF call.pc # "done" THEN "none"
    ELSE IF call.path = "rate_timeout" THEN "RateLimited"
    ELSE IF call.fr.pc = "raised"
    THEN IF call.fr.error.kind \in Transient THEN "Exhausted" ELSE "Fatal"
    ELSE "none"

InSequence(call) ==
    /\ call.pc \in {"idle", "lookup"} => (~call.hit /\ call.took = 0 /\ call.fr = NewRetry)
    /\ call.hit => (call.pc = "done" /\ call.path = "hit")
    /\ call.path = "hit" => (call.hit /\ call.took = 0 /\ call.fr = NewRetry)
    /\ call.pc \in {"admit", "acquiring"} =>
          (~call.hit /\ call.took = 0 /\ call.fr = NewRetry)
    /\ call.path \in {"rate_timeout", "auth_failed"} =>
          (call.took = 0 /\ call.fr = NewRetry)
    /\ call.fr.calls > 0 => (~call.hit /\ call.took = 1)
    /\ call.pc = "fetch" => (call.took = 1 /\ call.fr.pc \in {"loop", "sleep"})
    /\ call.pc = "store" => (call.took = 1 /\ call.fr.pc = "returned")
    /\ call.path \in {"fetched", "nodata"} => (call.took = 1 /\ call.fr.pc = "returned")
    /\ call.path \in {"rate_limit_error", "error"} =>
          (call.fr.pc = "raised" \/ call.fr = NewRetry)

\* C15: every call is at a place of the sequence with the steps before it taken
\* (the fetch only after a miss and a grant), and the cache is written only by
\* the step of a call whose fetch returned, which then ends the call.
C15_CallSequence ==
    [][/\ \A g \in Callers : InSequence(gcall'[g])
       /\ CacheStep("set") =>
             \E g \in Callers :
                 /\ gcall[g].pc = "store" /\ gcall[g].fr.pc = "returned"
                 /\ ~gcall[g].hit /\ gcall[g].took = 1
                 /\ gcall'[g].pc = "done" /\ gcall'[g].path = "fetched"]_vars

Live(k) == k \in KeysOf(cache) /\ now - stored[k].at < ttl_seconds

\* a step that completes a call of get_stats
StatsStep == cret'.op = "get_stats" /\ cret' # cret

\* every call keeps the counters in step with what it did: a get adds one hit when
\* it returns a stored unexpired entry and one miss otherwise, a set adds one
\* eviction per entry it pushed out, and nothing else moves a counter
CountersExact ==
    /\ CacheStep("get") =>
          /\ hits' = hits + (IF Live(cret'.key) THEN 1 ELSE 0)
          /\ misses' = misses + (IF Live(cret'.key) THEN 0 ELSE 1)
          /\ cret'.hit <=> Live(cret'.key)
          /\ evictions' = evictions
    /\ CacheStep("set") =>
          /\ evictions' = evictions + Cardinality(KeysOf(cache) \ KeysOf(cache'))
          /\ hits' = hits /\ misses' = misses
    /\ (CacheStep("invalidate") \/ CacheStep("clear") \/ StatsStep) =>
          (hits' = hits /\ misses' = misses /\ evictions' = evictions)

\* get_stats returns the counters, the size and the configuration as they are
SnapshotExact ==
    StatsStep =>
        /\ cache' = cache /\ ops' = ops
        /\ cret'.val.size = Len(cache) /\ cret'.val.max_size = max_size
        /\ cret'.val.hits = hits /\ cret'.val.misses = misses
        /\ cret'.val.evictions = evictions /\ cret'.val.ttl_seconds = ttl_seconds
        /\ hits + misses = 0 => cret'.val.hit_rate = 0

\* C20 as stated: the counters are exact, get_stats returns them with the current
\* size, and hit_rate is exactly hits / (hits + misses) * 100, or 0 without gets.
C20_StatsExact ==
    [][/\ CountersExact
       /\ SnapshotExact
       /\ StatsStep =>
             cret'.val.hit_rate * (hits + misses) = hits * 10000]_vars

\* C20 amended: the same, with hit_rate rounded to two decimals: it is the multiple
\* of 0.01 nearest to hits / (hits + misses) * 100.
C20_StatsRounded ==
    [][/\ CountersExact
       /\ SnapshotExact
       /\ (StatsStep /\ hits + misses > 0) =>
             LET total == hits + misses
                 r == cret'.val.hit_rate IN
             /\ 2 * r * total - total <= 2 * hits * 10000
             /\ 2 * hits * 10000 < 2 * r * total + total]_vars

\* C20 witness: after one hit and two misses get_stats reports 33.33 percent.
C20_Witness ==
    /\ cret.op = "get_stats" /\ hits = 1 /\ misses = 2
    /\ cret.val.hits = 1 /\ cret.val.misses = 2 /\ cret.val.hit_rate = 3333

\* C21: a set of a key that is stored replaces its entry by a fresh one (the new
\* value, inserted now, never accessed) at the most recently used end; the other
\* entries stay as they were and in their order, the size and the evictions
\* counter do not change, also when the cache is full.
C21_ResetIsFreshInsertion ==
    [][(CacheStep("set") /\ cret'.key \in KeysOf(cache)) =>
          LET k == cret'.key
              e == cache'[Len(cache')] IN
          /\ e.key = k /\ e.value = cret'.val
          /\ e.timestamp = now /\ e.last_accessed = now /\ e.access_count = 0
          /\ Len(cache') = Len(cache)
          /\ Remove(cache', k) = Remove(cache, k)
          /\ evictions' = evictions]_vars

\* C21 witness: a full cache of two entries in which the older key was set again:
\* it is now the most recently used, and nothing was evicted.
C21_Witness ==
    /\ max_size = 2 /\ Len(cache) = 2 /\ ops = 3 /\ Cardinality(setKeys) = 2
    /\ ~pristine /\ hits = 0 /\ misses = 0 /\ evictions = 0
    /\ cret.op = "set" /\ cache[2].key = cret.key /\ cache[2].value = cret.val
    /\ cache[2].timestamp = now /\ cache[1].timestamp < now

\* the position of key k in the map, 0 when it is not stored
PositionOf(c, k) == IF k \in KeysOf(c) THEN CHOOSE i \in 1..Len(c) : c[i].key = k ELSE 0

\* C23: invalidate(key) removes the entry of key and nothing else, the other
\* entries keeping their content and order, and changes nothing when the key is
\* not stored (so a second invalidate changes nothing); clear() removes every
\* entry; neither changes hits, misses or evictions.
C23_InvalidateAndClear ==
    [][/\ CacheStep("invalidate") =>
             LET k == cret'.key
                 p == PositionOf(cache, k) IN
             /\ k \notin KeysOf(cache')
             /\ p = 0 => cache' = cache
             /\ p > 0 =>
                   /\ Len(cache') = Len(cache) - 1
                   /\ \A i \in 1..Len(cache') :
                         cache'[i] = cache[IF i < p THEN i ELSE i + 1]
             /\ hits' = hits /\ misses' = misses /\ evictions' = evictions
       /\ CacheStep("clear") =>
             /\ cache' = <<>>
             /\ hits' = hits /\ misses' = misses /\ evictions' = evictions]_vars

\* C23 witness: of two entries, one of them read with a hit, the older one was
\* invalidated: the other is left and the hit is still counted.
C23_Witness ==
    /\ cret.op = "invalidate" /\ ops = 4 /\ hits = 1 /\ misses = 0
    /\ Cardinality(setKeys) = 2 /\ Len(cache) = 1
    /\ cret.key \in setKeys /\ cret.key \notin KeysOf(cache)
    /\ lastUse[cret.key] < lastUse[cache[1].key]

\* --------------------------------------------- further claims on the limiter
\* the timeouts given to acquire under SpecLimiter: None, or one tick
TimeoutOf(h) == IF h THEN 1 ELSE 0

\* the call ended with ValueError, the bucket untouched
Rejected == lret'.err = "ValueError" /\ UNCHANGED <<tokens, last_update, granted>>

\* C16 as stated: try_acquire(n) and acquire(n) both end with an invalid-argument
\* error, the bucket untouched, whenever n <= 0 or n > capacity.
C16_InvalidArgumentRejected ==
    [][\A c \in Callers, n \in TokenArgs :
          (n <= 0 \/ n > capacity) =>
              /\ TryAcquire(c, n) => Rejected
              /\ \A h \in BOOLEAN :
                    AcquireCall(c, n, h, TimeoutOf(h)) =>
                        (Rejected /\ frame'[c].pc = "idle")]_vars

\* C16 amended: try_acquire(n) ends with the error when n <= 0 and returns False
\* when n > capacity; acquire(n) ends with the error in both cases, before any
\* wait; the bucket is untouched in all of them.
C16_ArgumentChecks ==
    [][\A c \in Callers, n \in TokenArgs :
          (n <= 0 \/ n > capacity) =>
              /\ TryAcquire(c, n) =>
                    /\ UNCHANGED <<tokens, last_update, granted>>
                    /\ IF n <= 0 THEN lret'.err = "ValueError"
                       ELSE lret'.err = "none" /\ ~lret'.ok
              /\ \A h \in BOOLEAN :
                    AcquireCall(c, n, h, TimeoutOf(h)) =>
                        (Rejected /\ frame'[c].pc = "idle")]_vars

\* C16 witness: after time has passed since the last refill, try_acquire of more
\* than the capacity returned False and left the bucket and its refill time alone.
C16_Witness ==
    /\ lret.op = "try_acquire" /\ lret.n > capacity /\ ~lret.ok /\ lret.err = "none"
    /\ last_update < now /\ tokens < capacity * Sub

\* C17: while no time has passed since construction, try_acquire(1) returns True as
\* long as fewer than capacity tokens were granted and False once capacity were:
\* called alone, it succeeds capacity times and then fails.
C17_FullBucketAtStart ==
    [][\A c \in Callers :
          (now = 0 /\ TryAcquire(c, 1)) =>
              /\ lret'.err = "none"
              /\ lret'.ok <=> granted[0] < capacity
              /\ granted'[0] = granted[0] + (IF lret'.ok THEN 1 ELSE 0)]_vars

\* C17 witness: a bucket of capacity two, no time passed, two tokens granted, and
\* the next try_acquire(1) returned False.
C17_Witness ==
    /\ now = 0 /\ capacity = 2 /\ granted[0] = capacity /\ tokens = 0
    /\ lret = [NoRet EXCEPT !.op = "try_acquire", !.n = 1]

\* the step in which the acquire of caller c ends
AcquireEnds(c) == frame[c].pc # "idle" /\ frame'[c].pc = "idle"

\* C18: acquire(n, timeout) returns True only from an admission check that found
\* tokens >= n after the refill and took exactly n; it returns False only with a
\* timeout that has elapsed since the call started, after an admission check that
\* found tokens < n; with timeout=None it never returns False.
C18_AcquireOutcome ==
    [][\A c \in Callers :
          LET refilled == RefillTokens(tokens, last_update, now)
              n == frame[c].n IN
          /\ (AcquireEnds(c) /\ lret'.ok) =>
                /\ frame[c].pc = "check" /\ Sufficient(refilled, n)
                /\ tokens' = refilled - n * Sub
                /\ granted'[now] = granted[now] + n
          /\ (AcquireEnds(c) /\ ~lret'.ok /\ lret'.err = "none") =>
                /\ frame[c].pc = "timeout" /\ frame[c].hasTimeout
                /\ now - frame[c].start >= frame[c].timeout
          /\ (frame[c].pc = "check" /\ frame'[c].pc = "timeout") =>
                (~Sufficient(refilled, n) /\ tokens' = refilled)
          /\ frame'[c].pc = "timeout" => frame[c].pc \in {"check", "timeout"}]_vars

\* C18 witness: an acquire with a timeout, started when the bucket was empty,
\* returned False once the timeout had elapsed.
C18_Witness ==
    /\ lret = [NoRet EXCEPT !.op = "acquire", !.n = lret.n] /\ lret.n >= 1
    /\ now >= 1 /\ tokens < lret.n * Sub /\ last_update = now
    /\ \A c \in Callers : frame[c].pc = "idle"

\* ------------------------------------------ specification: generate_key
\* Calls of generate_key by two callers, over the endpoints and parameter lists
\* tried; a state holds the last call of each caller, so that any two calls meet.
InitKey ==
    /\ now = 0
    /\ LimiterInit(1, 1)
    /\ CacheInit(1, 1)
    /\ RetryInit(0, <<1, 2, 10>>, {"Exception"}, [i \in 1..(MaxRetries + 1) |-> "ok"])
    /\ GuardInit
    /\ KeyInit(Endpoints, ParamLists)
    /\ AllocInit(FALSE)
    /\ Constructed

NextKey ==
    \E c \in Callers, e \in Endpoints, p \in ParamLists :
        GenerateKeyCall(c, e, p)
           /\ UNCHANGED <<now, limVars, cacheVars, retryVars, guardVars, instVars, allocVars>>

SpecKey == InitKey /\ [][NextKey]_vars

\* the name/value pairs of a call, whatever their order
Pairs(params) == {params[i] : i \in 1..Len(params)}

\* C19: two calls of generate_key with the same endpoint return the same key when
\* their parameters are the same name/value pairs, in whatever argument order, and
\* different keys when the parameters differ.
C19_KeySeparates ==
    \A c \in Callers, d \in Callers :
        (keyed[c].called /\ keyed[d].called /\ keyed[c].endpoint = keyed[d].endpoint) =>
            (keyed[c].key = keyed[d].key <=> Pairs(keyed[c].params) = Pairs(keyed[d].params))

\* C19 witness: the same two parameters given in the two argument orders have one
\* key, which differs from the key of the call that has another value for one.
C19_Witness ==
    \E c \in Callers, d \in Callers :
        /\ keyed[c].called /\ keyed[d].called /\ keyed[c].endpoint = keyed[d].endpoint
        /\ Len(keyed[c].params) = 2 /\ keyed[c].params # keyed[d].params
        /\ Pairs(keyed[c].params) = Pairs(keyed[d].params)
        /\ keyed[c].key = keyed[d].key
        /\ keyed[c].key # keyOf[keyed[c].endpoint,
                                <<keyed[c].params[1],
                                  <<keyed[c].params[2][1], IntValue(1)>>>>]
        /\ keyed[c].params[2][2] # IntValue(1)

\* ------------------------------------------- specification: construction
\* No instance exists at first; constructor calls with valid and invalid arguments
\* follow, each new instance taking the place of the one before, and the limiter
\* is used in between.
CtorArgs == (-1)..2

InitConstruct ==
    /\ now = 0
    /\ rate = 0 /\ capacity = 0 /\ tokens = 0 /\ last_update = 0
    /\ frame = [x \in Callers |-> IdleFrame] /\ lret = NoRet
    /\ granted = [t \in Times |-> 0]
    /\ max_size = 0 /\ ttl_seconds = 0 /\ cache = <<>>
    /\ hits = 0 /\ misses = 0 /\ evictions = 0 /\ cret = NoCacheRet /\ ops = 0
    /\ lastUse = [k \in Keys |-> 0]
    /\ stored = [k \in Keys |-> [at |-> 0, val |-> None]]
    /\ setKeys = {} /\ pristine = TRUE
    /\ RetryInit(0, <<1, 2, 10>>, {"Exception"}, [i \in 1..(MaxRetries + 1) |-> "ok"])
    /\ GuardInit
    /\ KeyInit({}, {})
    /\ AllocInit(FALSE)
    /\ built = [limiter |-> FALSE, cache |-> FALSE, error |-> NoError]

NextConstruct ==
    \/ Tick /\ UNCHANGED <<limVars, cacheVars, retryVars, guardVars, keyVars, instVars, allocVars>>
    \/ \E r \in CtorArgs, c \in CtorArgs :
          RateLimiterNew(r, c) /\ UNCHANGED <<now, cacheVars, retryVars, guardVars, keyVars, allocVars>>
    \/ \E m \in CtorArgs, ttl \in CtorArgs :
          APICacheNew(m, ttl) /\ UNCHANGED <<now, limVars, retryVars, guardVars, keyVars, allocVars>>
    \/ \E c \in Callers :
          built.limiter /\ TryAcquire(c, 1)
          /\ UNCHANGED <<now, cacheVars, retryVars, guardVars, keyVars, instVars, allocVars>>

SpecConstruct == InitConstruct /\ [][NextConstruct]_vars

\* C22: a constructor call with a non-positive argument ends with an error and
\* creates nothing, and every instance that exists has max_size >= 1, ttl > 0,
\* rate > 0 and capacity >= 1.
C22_ConstructorsValidate ==
    [][/\ \A r \in CtorArgs, c \in CtorArgs :
             (RateLimiterNew(r, c) /\ (r <= 0 \/ c <= 0)) =>
                 (built'.error = "ValueError" /\ built'.limiter = built.limiter
                  /\ UNCHANGED limVars)
       /\ \A m \in CtorArgs, ttl \in CtorArgs :
             (APICacheNew(m, ttl) /\ (m <= 0 \/ ttl <= 0)) =>
                 (built'.error = "ValueError" /\ built'.cache = built.cache
                  /\ UNCHANGED cacheVars)
       /\ built'.limiter => (rate' > 0 /\ capacity' >= 1)
       /\ built'.cache => (max_size' >= 1 /\ ttl_seconds' > 0)]_vars

\* C22 witness: a limiter and a cache exist, the limiter is in use, and the last
\* constructor call, with a non-positive argument, ended with an error.
C22_Witness ==
    /\ built = [limiter |-> TRUE, cache |-> TRUE, error |-> "ValueError"]
    /\ rate > 0 /\ capacity >= 1 /\ max_size >= 1 /\ ttl_seconds > 0
    /\ tokens < capacity * Sub

\* ------------------------------------------------ claims on the token count
\* min(capacity, tokens + elapsed * rate), in sub-tokens
RefilledCount == Min(capacity * Sub, tokens + (now - last_update) * rate)

\* C24 as stated: after a try_acquire(n) that returns False the token count is the
\* refilled count, not lower than before; after one that returns True it is the
\* refilled count less n.
C24_FalseLeavesRefilledCount ==
    [][\A c \in Callers, n \in TokenArgs :
          (TryAcquire(c, n) /\ lret'.err = "none") =>
              IF lret'.ok THEN tokens' = RefilledCount - n * Sub
              ELSE tokens' = RefilledCount /\ tokens' >= tokens]_vars

\* C24 amended: the same for 1 <= n <= capacity; for n > capacity the call returns
\* False without a refill, the token count and the refill time as they were.
C24_FalseConsumesNothing ==
    [][\A c \in Callers, n \in TokenArgs :
          (TryAcquire(c, n) /\ lret'.err = "none") =>
              IF n > capacity
              THEN ~lret'.ok /\ tokens' = tokens /\ last_update' = last_update
              ELSE /\ last_update' = now
                   /\ IF lret'.ok THEN tokens' = RefilledCount - n * Sub
                      ELSE tokens' = RefilledCount /\ tokens' >= tokens]_vars

\* C24 witness: time passed, and a try_acquire of a number the bucket can hold
\* returned False on a bucket that the refill had brought above zero.
C24_Witness ==
    /\ lret = [NoRet EXCEPT !.op = "try_acquire", !.n = lret.n]
    /\ lret.n >= 1 /\ lret.n <= capacity
    /\ last_update = now /\ now > 0 /\ 0 < tokens /\ tokens < lret.n * Sub

\* the token count a refill at time t would find, from the given count and time
CountAt(tok, last, t) == Min(capacity * Sub, tok + (t - last) * rate)

\* C25: get_available_tokens returns the whole tokens of the refilled count and
\* changes only what the refill changes; the count that any later call will find
\* is the one it would have found without this call.
C25_AvailableOnlyRefills ==
    [][\A c \in Callers :
          GetAvailableTokens(c) =>
              /\ lret'.val = RefilledCount \div Sub
              /\ lret'.val * Sub <= RefilledCount /\ RefilledCount < (lret'.val + 1) * Sub
              /\ tokens' = RefilledCount /\ last_update' = now
              /\ UNCHANGED <<rate, capacity, frame, granted>>
              /\ \A t \in Times :
                    t >= now => CountAt(tokens', last_update', t)
                                  = CountAt(tokens, last_update, t)]_vars

\* C25 witness: half a token had been refilled when get_available_tokens was
\* called: it returned 0 and the half token is still there.
C25_Witness ==
    /\ lret.op = "get_available_tokens" /\ lret.val = 0
    /\ tokens > 0 /\ tokens < Sub /\ last_update = now /\ now > 0

\* the bucket was emptied at time 0 and nothing was granted afterwards
DrainedAtStart(g) == g[0] = capacity /\ \A t \in Times : t > 0 => g[t] = 0

\* C26: the count never exceeds the capacity; a refill over t0..t2 gives the same
\* count as a refill over t0..t1 followed by one over t1..t2; a step that grants
\* nothing, whether it refills or not, leaves the count that any later refill finds
\* as it was; a bucket emptied at time 0 holds min(capacity, rate * w) after w.
C26_RefillProportional ==
    [][/\ tokens <= capacity * Sub /\ tokens' <= capacity' * Sub
       /\ \A t1 \in Times, t2 \in Times :
             (last_update <= t1 /\ t1 <= t2) =>
                 /\ RefillTokens(RefillTokens(tokens, last_update, t1), t1, t2)
                       = RefillTokens(tokens, last_update, t2)
                 /\ RefillTokens(tokens, last_update, t2) <= capacity * Sub
                 /\ RefillTokens(0, t1, t2) = Min(capacity * Sub, rate * (t2 - t1))
       /\ granted' = granted =>
             \A t \in Times :
                 t >= now' => CountAt(tokens', last_update', t)
                                = CountAt(tokens, last_update, t)
       /\ DrainedAtStart(granted') =>
             CountAt(tokens', last_update', now') = Min(capacity * Sub, rate * now')]_vars

\* C26 witness: the bucket was emptied at time 0; a caller entered acquire at
\* time 1, its admission check refilled the bucket and failed, and it has slept
\* since; get_available_tokens refilled again at time 2, and the count is rate * 2.
C26_Witness ==
    /\ DrainedAtStart(granted) /\ now = 2 /\ last_update = 2
    /\ tokens = rate * 2 /\ tokens < capacity * Sub
    /\ lret.op = "get_available_tokens"
    /\ \E c \in Callers :
          frame[c].pc = "sleep" /\ frame[c].start = 1 /\ frame[c].sleepStart = 1

\* caller x is inside acquire, and entered it before time t
BlockedSince(x, t) == frame[x].pc # "idle" /\ frame[x].start < t

\* C28: the admission check of acquire grants the tokens to the caller that runs
\* it whenever the refilled count covers its request, and only then, whoever else
\* is blocked and for however long; no caller is served in order of arrival.
C28_NoFifoOrder ==
    [][\A c \in Callers :
          AcquireCheck(c) =>
              /\ (frame'[c].pc = "idle" /\ lret'.ok /\ granted'[now] = granted[now] + frame[c].n)
                    <=> Sufficient(RefilledCount, frame[c].n)
              /\ \A x \in Callers \ {c} : frame'[x] = frame[x]]_vars

\* C28 witness: caller 1 entered acquire without timeout at time 0 and is still
\* in it at time 2; the tokens refilled at times 1 and 2 went to the other
\* caller, the last of them through a call of acquire that began after time 0.
C28_Witness ==
    /\ BlockedSince(1, 1) /\ ~frame[1].hasTimeout /\ now = 2
    /\ granted[1] > 0 /\ granted[2] > 0
    /\ lret.op = "acquire" /\ lret.ok /\ frame[2].pc = "idle"
    /\ tokens < frame[1].n * Sub

\* call g is between its cache lookup and its return, working on key k
InFlight(g, k) ==
    gcall[g].key = k /\ gcall[g].pc \in {"admit", "acquiring", "fetch", "store"}

\* C29: a lookup that finds nothing goes on to the limiter whether or not another
\* call for the same key is in flight; every call that reaches the store has
\* missed, taken one token and invoked the fetch; a fetched 'data' entry replaces
\* whatever the cache holds for the key, and the cache stays within max_size.
C29_NoSingleFlight ==
    [][\A g \in Callers :
          /\ (GuardLookup(g) /\ ~CachedDataPresent(cret')) =>
                 /\ gcall'[g].pc = "admit"
                 /\ \A x \in Callers \ {g} : gcall'[x] = gcall[x]
          /\ GuardStore(g) =>
                 /\ ~CachedDataPresent([val |-> gcall[g].hitVal])
                 /\ gcall[g].took = 1 /\ gcall[g].fr.calls >= 1
                 /\ gcall[g].resp.kind = "data" =>
                        /\ gcall[g].key \in KeysOf(cache')
                        /\ Entry(cache', gcall[g].key).value = gcall[g].resp.data
                        /\ Entry(cache', gcall[g].key).timestamp = now
                        /\ gcall'[g].ret = gcall[g].resp.data
                 /\ Len(cache') <= max_size]_vars

\* C29 witness: nothing has been stored yet and both calls, for the same key,
\* have missed, have taken a token each and have a fetched response in hand.
C29_Witness ==
    /\ \A g \in Callers :
          /\ gcall[g].pc = "store" /\ gcall[g].key = "a" /\ ~gcall[g].hit
          /\ gcall[g].took = 1 /\ gcall[g].fr.calls >= 1
    /\ gcall[1].resp.kind = "data" /\ gcall[2].resp.kind = "data"
    /\ gcall[1].resp.data # gcall[2].resp.data
    /\ cache = <<>> /\ setKeys = {} /\ misses = 2

\* the cache holds for key k an entry younger than ttl: a call that fetched stored
\* it and returned, and it was not evicted, invalidated or cleared since
Fresh(k) == k \in KeysOf(cache) /\ ~IsExpired(Entry(cache, k), now)

LimiterDrained(r, c) ==
    /\ rate = r
    /\ capacity = c
    /\ tokens = Consume(c * Sub, c)
    /\ last_update = now
    /\ frame = [x \in Callers |-> IdleFrame]
    /\ lret = [NoRet EXCEPT !.op = "try_acquire", !.n = c, !.ok = TRUE]
    /\ granted = [t \in Times |-> IF t = now THEN c ELSE 0]

\* the caller of acquire and the caller that only reads the count
Acquirer == 1
Reader == 2

\* the timeouts passed to acquire, in ticks
Timeouts == 1..(MaxTime + 1)

\* the refill of n tokens ends within the range of the clock
RefillFits(n) == n * Sub <= (MaxTime - now) * rate + tokens

\* time passes while the caller of acquire is in time.sleep or outside acquire;
\* the statements between two sleeps take no time
SleepTick ==
    /\ frame[Acquirer].pc \in {"idle", "sleep"}
    /\ Tick

InitLone ==
    /\ now = 0
    /\ \E cfg \in LimiterConfigs : LimiterDrained(cfg[1], cfg[2])
    /\ CacheInit(1, 1)
    /\ RetryInit(0, <<1, 2, 10>>, {"Exception"}, [i \in 1..(MaxRetries + 1) |-> "ok"])
    /\ GuardInit
    /\ KeyInit({}, {})
    /\ AllocInit(FALSE)
    /\ Constructed

NextLone ==
    \/ SleepTick /\ UNCHANGED <<limVars, cacheVars, retryVars, guardVars, keyVars, instVars, allocVars>>
    \/ GetAvailableTokens(Reader) /\ UNCHANGED <<now, cacheVars, retryVars, guardVars, keyVars, instVars, allocVars>>
    \/ \E n \in 1..capacity, h \in BOOLEAN, t \in Timeouts :
          RefillFits(n) /\ AcquireCall(Acquirer, n, h, IF h THEN t ELSE 0)
              /\ UNCHANGED <<now, cacheVars, retryVars, guardVars, keyVars, instVars, allocVars>>
    \/ AcquireCheck(Acquirer) /\ UNCHANGED <<now, cacheVars, retryVars, guardVars, keyVars, instVars, allocVars>>
    \/ AcquireTimeout(Acquirer) /\ UNCHANGED <<now, cacheVars, retryVars, guardVars, keyVars, instVars, allocVars>>
    \/ AcquireWait(Acquirer) /\ UNCHANGED <<now, cacheVars, retryVars, guardVars, keyVars, instVars, allocVars>>
    \/ AcquireSleep(Acquirer) /\ UNCHANGED <<now, cacheVars, retryVars, guardVars, keyVars, instVars, allocVars>>

\* the clock advances and the thread in acquire is scheduled
FairLone ==
    /\ WF_vars(SleepTick /\ UNCHANGED <<limVars, cacheVars, retryVars, guardVars, keyVars, instVars, allocVars>>)
    /\ WF_vars(AcquireCheck(Acquirer) /\ UNCHANGED <<now, cacheVars, retryVars, guardVars, keyVars, instVars, allocVars>>)
    /\ WF_vars(AcquireTimeout(Acquirer) /\ UNCHANGED <<now, cacheVars, retryVars, guardVars, keyVars, instVars, allocVars>>)
    /\ WF_vars(AcquireWait(Acquirer) /\ UNCHANGED <<now, cacheVars, retryVars, guardVars, keyVars, instVars, allocVars>>)
    /\ WF_vars(AcquireSleep(Acquirer) /\ UNCHANGED <<now, cacheVars, retryVars, guardVars, keyVars, instVars, allocVars>>)

SpecLone == InitLone /\ [][NextLone]_vars /\ FairLone

\* the call of acquire in progress has no timeout, or one longer than the refill
\* of its tokens takes
PatientCall(c) ==
    /\ frame[c].pc # "idle"
    /\ ~frame[c].hasTimeout \/ frame[c].timeout * rate > frame[c].n * Sub

\* acquire has just returned True to c
ReturnedTrue(c) == frame[c].pc = "idle" /\ lret.op = "acquire" /\ lret.ok

SameEntry(e, f) ==
    /\ e.key = f.key /\ e.value = f.value /\ e.timestamp = f.timestamp
    /\ e.ttl = f.ttl /\ f.access_count >= e.access_count

\* the entry stored under k before the step is not in the map after it
Leaves(k) ==
    /\ k \in KeysOf(cache)
    /\ ~(k \in KeysOf(cache') /\ SameEntry(Entry(cache, k), Entry(cache', k)))

\* C32: an entry leaves the map only through a get of its key that finds it
\* expired, invalidate of its key, clear, a set of its key, or as the least
\* recently used entry when a new key is set into a full cache; a get of k leaves
\* every other entry where it is, and a hit changes only k's access_count,
\* last_accessed and position, and the hits counter.
C32_HowEntriesLeave ==
    [][/\ \A k \in Keys :
             Leaves(k) =>
                 \/ /\ CacheStep("get") /\ cret'.key = k /\ ~cret'.hit
                    /\ IsExpired(Entry(cache, k), now)
                 \/ CacheStep("invalidate") /\ cret'.key = k
                 \/ CacheStep("clear")
                 \/ CacheStep("set") /\ cret'.key = k
                 \/ /\ CacheStep("set") /\ cret'.key \notin KeysOf(cache)
                    /\ Len(cache) = max_size /\ cache[1].key = k
       /\ CacheStep("get") =>
             /\ Remove(cache', cret'.key) = Remove(cache, cret'.key)
             /\ UNCHANGED <<evictions, max_size, ttl_seconds>>
             /\ cret'.hit =>
                   /\ cret'.key \in KeysOf(cache)
                   /\ cache' = Append(Remove(cache, cret'.key),
                                      [Entry(cache, cret'.key) EXCEPT
                                          !.access_count = @ + 1, !.last_accessed = now])
                   /\ hits' = hits + 1 /\ misses' = misses]_vars

\* C32 witness: a get has hit the entry stored first of two, which is now the
\* most recent and has been read once; the entry stored after it is still in the
\* map, as it was.
C32_Witness ==
    /\ cret.op = "get" /\ cret.hit /\ Len(cache) = 2
    /\ cache[2].key = cret.key /\ cache[2].access_count = 1
    /\ cache[2].last_accessed = now /\ cache[2].timestamp < cache[1].timestamp
    /\ cache[1].access_count = 0 /\ cache[1].last_accessed = cache[1].timestamp

\* --------------------------------------------- tokens of the guarded call

\* the tokens taken, and the invocations of the fetch made, by the calls that
\* the callers gs are in or have last made
RECURSIVE TookBy(_)
TookBy(gs) ==
    IF gs = {} THEN 0
    ELSE LET g == CHOOSE x \in gs : TRUE IN gcall[g].took + TookBy(gs \ {g})
RECURSIVE FetchesBy(_)
FetchesBy(gs) ==
    IF gs = {} THEN 0
    ELSE LET g == CHOOSE x \in gs : TRUE IN gcall[g].fr.calls + FetchesBy(gs \ {g})

\* C33: a call takes no token when it returns from the cache or is denied by the
\* limiter, and exactly one, at its admission and before its first invocation of
\* the fetch, when it goes on to fetch; the attempts of the retrier take none, so
\* the invocations of the fetch are at most 4 to each token granted.
C33_TokenAccounting ==
    [][/\ \A g \in Callers :
             /\ gcall[g].took \in {0, 1}
             /\ gcall[g].took = 1 <=> (gcall[g].pc \in {"fetch", "store"}
                                          \/ gcall[g].path \in {"fetched", "nodata",
                                                                "rate_limit_error"}
                                          \/ gcall[g].fr.calls > 0)
             /\ gcall[g].path \in {"hit", "rate_timeout", "auth_failed"} =>
                    gcall[g].took = 0 /\ gcall[g].fr.calls = 0
             /\ gcall[g].fr.calls <= (max_retries + 1) * gcall[g].took
       /\ TookBy(Callers) <= GrantedIn(0, MaxTime)
       /\ FetchesBy(Callers) <= (max_retries + 1) * GrantedIn(0, MaxTime)
       /\ \A g \in Callers :
             IF GuardAcquire(g) /\ gcall'[g].pc = "fetch"
             THEN /\ gcall[g].fr.calls = 0 /\ gcall[g].took = 0 /\ gcall'[g].took = 1
                  /\ granted' = [granted EXCEPT ![now] = @ + 1]
                  /\ tokens' = RefilledCount - Sub
             ELSE (gcall'[g] # gcall[g] /\ \A x \in Callers \ {g} : gcall'[x] = gcall[x]) =>
                     /\ granted' = granted
                     /\ tokens' \in {tokens, RefilledCount}]_vars

\* C33 witness: a call has ended after 4 invocations of the fetch on the one
\* token granted so far; the other call was denied by the limiter and took none.
C33_Witness ==
    \E g \in Callers, h \in Callers :
        /\ gcall[g].pc = "done" /\ gcall[g].fr.calls = 4 /\ gcall[g].took = 1
        /\ gcall[h].pc = "done" /\ gcall[h].path = "rate_timeout" /\ gcall[h].took = 0
        /\ GrantedIn(0, MaxTime) = 1

\* ------------------------------------- the client, with its threads scheduled

\* the cache calls that the calls in progress still have to make
RECURSIVE OpsNeeded(_)
OpsNeeded(gs) ==
    IF gs = {} THEN 0
    ELSE LET g == CHOOSE x \in gs : TRUE IN
         (IF gcall[g].pc = "lookup" THEN 2
          ELSE IF gcall[g].pc \in {"admit", "acquiring", "fetch", "store"} THEN 1
          ELSE 0) + OpsNeeded(gs \ {g})

\* a call is started while the clock leaves room for its wait at the limiter and
\* the run for its cache calls
BoundedStart(g, k, authOk) ==
    /\ now + GuardTimeout <= MaxTime
    /\ ops + OpsNeeded(Callers) + 2 <= MaxOps
    /\ GuardStart(g, k, authOk)

\* time passes while every call in progress is in one of its calls of time.sleep
GuardTick ==
    /\ \A g \in Callers :
          \/ gcall[g].pc \in {"idle", "done"}
          \/ gcall[g].pc = "acquiring" /\ frame[g].pc = "sleep"
          \/ gcall[g].pc = "fetch" /\ gcall[g].fr.pc = "sleep"
    /\ Tick

\* the steps of call g, from its lookup to its return
CallStep(g) ==
    \/ GuardLookup(g) /\ UNCHANGED <<now, limVars, retryVars, keyVars, instVars, allocVars>>
    \/ GuardAdmit(g) /\ UNCHANGED <<now, cacheVars, retryVars, keyVars, instVars, allocVars>>
    \/ GuardAcquire(g) /\ UNCHANGED <<now, cacheVars, retryVars, keyVars, instVars, allocVars>>
    \/ \E resp \in Responses :
          GuardFetch(g, resp) /\ UNCHANGED <<now, limVars, cacheVars, retryVars, keyVars, instVars, allocVars>>
    \/ GuardSleep(g) /\ UNCHANGED <<now, limVars, cacheVars, retryVars, keyVars, instVars, allocVars>>
    \/ GuardStore(g) /\ UNCHANGED <<now, limVars, retryVars, keyVars, instVars, allocVars>>

NextGuardLive ==
    \/ GuardTick /\ UNCHANGED <<limVars, cacheVars, retryVars, guardVars, keyVars, instVars, allocVars>>
    \/ \E g \in Callers, k \in GuardKeys, a \in BOOLEAN :
          BoundedStart(g, k, a) /\ UNCHANGED <<now, limVars, cacheVars, retryVars, keyVars, instVars, allocVars>>
    \/ \E g \in Callers : CallStep(g)

\* every thread inside get_historical_data is scheduled, every invocation of the
\* fetch returns or raises, and the clock advances
FairGuard ==
    /\ WF_vars(GuardTick /\ UNCHANGED <<limVars, cacheVars, retryVars, guardVars, keyVars, instVars, allocVars>>)
    /\ \A g \in Callers : WF_vars(CallStep(g))

SpecGuardLive == InitGuard /\ [][NextGuardLive]_vars /\ FairGuard

\* call g is in progress
Running(g) == gcall[g].pc \notin {"idle", "done"}

InitPoll ==
    /\ now = 0
    /\ LimiterInit(Sub, 2)
    /\ CacheInit(1, 1)
    /\ RetryInit(0, <<1, 2, 10>>, {"Exception"}, [i \in 1..(MaxRetries + 1) |-> "ok"])
    /\ GuardInit
    /\ KeyInit({}, {})
    /\ AllocInit(FALSE)
    /\ Constructed

SpecPoll == InitPoll /\ [][NextLimiter]_vars

\* C34: a call of acquire with valid n ends by returning True or False, and the
\* interval it is about to sleep is within 0..0.1 s, never negative.
C34_WaitNeverNegative ==
    /\ \A c \in Callers :
          frame[c].pc = "sleep" => (0 <= frame[c].wait /\ frame[c].wait <= WaitCap * rate)
    /\ (lret.op = "acquire" /\ 1 <= lret.n /\ lret.n <= capacity) => lret.err = "none"

\* ------------------------------------------------ acquire with timeout = 0

\* callers of try_acquire(n) and of acquire(n, timeout=0) on one limiter
NextZero ==
    \/ Tick /\ UNCHANGED <<limVars, cacheVars, retryVars, guardVars, keyVars, instVars, allocVars>>
    \/ \E c \in Callers, n \in TokenArgs : TryAcquire(c, n) /\ UNCHANGED <<now, cacheVars, retryVars, guardVars, keyVars, instVars, allocVars>>
    \/ \E c \in Callers, n \in TokenArgs :
          AcquireCall(c, n, TRUE, 0) /\ UNCHANGED <<now, cacheVars, retryVars, guardVars, keyVars, instVars, allocVars>>
    \/ \E c \in Callers : AcquireCheck(c) /\ UNCHANGED <<now, cacheVars, retryVars, guardVars, keyVars, instVars, allocVars>>
    \/ \E c \in Callers : AcquireTimeout(c) /\ UNCHANGED <<now, cacheVars, retryVars, guardVars, keyVars, instVars, allocVars>>

SpecZero == InitLimiter /\ [][NextZero]_vars

\* what try_acquire(n), 1 <= n <= capacity, makes of the bucket it finds, ok
\* being what it returns
TryOutcome(n, ok) ==
    /\ ok = Sufficient(RefilledCount, n)
    /\ tokens' = IF ok THEN RefilledCount - n * Sub ELSE RefilledCount
    /\ last_update' = now
    /\ granted' = IF ok THEN [granted EXCEPT ![now] = @ + n] ELSE granted

\* C35: acquire(n, timeout=0) starts with the refill and admission check; the
\* check makes of the bucket what try_acquire(n) makes of it in the same state,
\* returns True where try_acquire does, and where it does not the timeout test
\* that follows returns False and leaves the bucket alone; the timeout is looked
\* at only after a failed check.
C35_ZeroTimeoutIsTryAcquire ==
    [][\A c \in Callers :
          /\ \A n \in TokenArgs :
                (TryAcquire(c, n) /\ 1 <= n /\ n <= capacity) =>
                    (TryOutcome(n, lret'.ok) /\ lret'.err = "none")
          /\ \A n \in TokenArgs :
                (AcquireCall(c, n, TRUE, 0) /\ 1 <= n /\ n <= capacity) =>
                    frame'[c].pc = "check"
          /\ AcquireCheck(c) =>
                /\ TryOutcome(frame[c].n, frame'[c].pc = "idle")
                /\ IF frame'[c].pc = "idle"
                   THEN lret' = [NoRet EXCEPT !.op = "acquire", !.n = frame[c].n,
                                              !.ok = TRUE]
                   ELSE frame'[c].pc = "timeout" /\ lret' = lret
          /\ (AcquireTimeout(c) /\ frame[c].timeout = 0) =>
                /\ frame'[c].pc = "idle"
                /\ lret' = [NoRet EXCEPT !.op = "acquire", !.n = frame[c].n]
                /\ UNCHANGED <<tokens, last_update, granted>>
          /\ (frame'[c].pc = "timeout" /\ frame[c].pc # "timeout") =>
                (frame[c].pc = "check" /\ ~Sufficient(RefilledCount, frame[c].n))]_vars

\* C35 witness: acquire(n, timeout=0) has returned False after its check
\* refilled the bucket to less than n tokens.
C35_Witness ==
    /\ lret = [NoRet EXCEPT !.op = "acquire", !.n = lret.n]
    /\ last_update = now /\ now > 0 /\ 0 < tokens /\ tokens < lret.n * Sub
    /\ lret.n <= capacity /\ \A c \in Callers : frame[c].pc = "idle"

\* --------------------------------------------------- the two retriers compared

\* C36: on the same configuration and the same outcomes of the operation, the
\* wrapper of retry_with_backoff and execute_with_retry stand alike after the same
\* number of invocations and sleeps, and when both have ended they have made the
\* same invocations, slept the same delays and returned the same value or raised
\* the same error.
C36_RetriersEquivalent ==
    LET w == retr["wrapper"]
        e == retr["execute"] IN
    /\ (w.calls = e.calls /\ Len(w.sleeps) = Len(e.sleeps) /\ Finished(w) = Finished(e)) => w = e
    /\ (Finished(w) /\ Finished(e)) =>
          /\ w.calls = e.calls /\ w.sleeps = e.sleeps
          /\ w.pc = e.pc /\ w.result = e.result /\ w.error = e.error

\* C36 witness: both have ended on the error of the third invocation, after the
\* same two sleeps, the second cut down to max_delay.
C36_Witness ==
    /\ retr["wrapper"].pc = "raised" /\ retr["execute"].pc = "raised"
    /\ retr["wrapper"].calls = 3 /\ retr["execute"].calls = 3
    /\ retr["wrapper"].sleeps = <<2, 4>> /\ retr["execute"].sleeps = <<2, 4>>
    /\ retr["wrapper"].error.idx = 3 /\ max_delay = 4 /\ initial_delay = 2

\* ------------------------------------------ specification: the order manager

\* One order manager on one tracker, in paper or in real trading, over the days.
InitAlloc ==
    /\ now = 0
    /\ LimiterInit(1, 1)
    /\ CacheInit(1, 1)
    /\ RetryInit(0, <<1, 2, 10>>, {"Exception"}, [i \in 1..(MaxRetries + 1) |-> "ok"])
    /\ GuardInit
    /\ KeyInit({}, {})
    /\ Constructed
    /\ \E sim \in BOOLEAN : AllocInit(sim)

\* the responses of client.place_order to the calls made for n stocks: it is not
\* called when orders are simulated
ResponsesFor(n) ==
    IF simulate THEN {[i \in 1..n |-> "none"]} ELSE [1..n -> OrderResponses]

NextAlloc ==
    \/ NextDay /\ UNCHANGED <<now, limVars, cacheVars, retryVars, guardVars, keyVars, instVars>>
    \/ \E stock \in Stocks, resps \in ResponsesFor(1) :
          PlaceOrderCall(stock, resps[1]) /\ UNCHANGED <<now, limVars, cacheVars, retryVars, guardVars, keyVars, instVars>>
    \/ \E list \in StockLists, m \in 1..MaxList : \E resps \in ResponsesFor(Len(list)) :
          PlaceOrdersCall(list, m, resps) /\ UNCHANGED <<now, limVars, cacheVars, retryVars, guardVars, keyVars, instVars>>

SpecAlloc == InitAlloc /\ [][NextAlloc]_vars

C38_ReturnsInvokedValue ==
    \A r \in {"wrapper", "execute"} :
        retr[r].pc = "returned" =>
            /\ retr[r].calls >= 1
            /\ retr[r].result = [kind |-> "ok", idx |-> retr[r].calls]

====
